---------------------------- MODULE Spec2Model ----------------------------
(***************************************************************************)
(* Transcript synchronizer: the alignment engine (TextAligner, two-pass    *)
(* anchor/interpolation version), the segment reshaper and the time codec  *)
(* of SRTParser.                                                           *)
(*                                                                         *)
(* Texts are TLA+ strings and are processed character by character, the   *)
(* way the JavaScript does.  Fractions (similarity scores, interpolated    *)
(* times before rounding) are kept exact as numerator/denominator pairs;   *)
(* the JavaScript computes them in double precision.                       *)
(***************************************************************************)
EXTENDS Integers, Sequences, FiniteSets, TLC

VARIABLES
    \* ---- TextAligner.align ----
    pdfSegments,    \* reference turns: sequence of [speaker, text]
    srtSubtitles,   \* timed entries: sequence of [startMs, endMs, text]
    pc,             \* position in align(): "findStart", "pass1", "pass2", "returned", or "idle"
    startIndex,     \* result of findTranscriptStart
    i,              \* 0-based loop index of the running pass
    srtIndex,       \* pass 1 cursor into srtSubtitles (0-based)
    match,          \* value of the local `match` in the last pass 1 iteration
    anchors,        \* anchors pushed by pass 1
    result,         \* segments pushed by pass 2
    spans,          \* history: the timed-entry span of each anchor, as pass 1 logs it
    \* ---- SRTParser.msToTime / timeToMs ----
    cpc,            \* position of the codec run: "format", "parse", "done", or "idle"
    ms,             \* the millisecond value handed to msToTime
    timeStr,        \* the string msToTime returned
    parsed,         \* the value timeToMs returned
    \* ---- TextAligner.splitLongSegments / processSegments ----
    rpc,            \* position of the reshaper run: "process", "done", or "idle"
    segments,       \* the aligned segments handed to processSegments
    processed,      \* the segments processSegments returned
    \* ---- TextAligner.filterSpeakerChanges ----
    mergePc,        \* position of the merge run: "merge", "remerge", "done", or "idle"
    toMerge,        \* the segments handed to filterSpeakerChanges
    merged,         \* filterSpeakerChanges(toMerge)
    remerged,       \* filterSpeakerChanges(merged)
    \* ---- TextAligner.calculateSimilarity ----
    scorePc,        \* position of the scoring run: "score", "done", or "idle"
    tokens1,        \* first word array
    tokens2,        \* second word array
    similarity,     \* the value calculateSimilarity returned
    \* ---- TextAligner.findBestMatch, one loop iteration at a time ----
    scanPc,         \* "inner", "outer", "return", "done", or "idle"
    targetWords,    \* the parameter pdfWords
    entries,        \* the parameter srtSubtitles
    searchFrom,     \* the parameter startIndex
    scanI,          \* the outer loop variable i
    scanJ,          \* the inner loop variable j
    bestMatch,      \* the local bestMatch
    bestScore,      \* the local bestScore
    scanned,        \* history: the candidates scored so far, in order
    scanResult,     \* the value findBestMatch returned
    \* ---- the reshaper on segment objects ----
    heapPc,         \* position of the run: "filter", "split", "process", "done", or "idle"
    heap,           \* the segment objects; a reference is a position in this sequence
    heapBefore,     \* history: the objects when the last call began
    argRefs,        \* the array of references handed to the last call
    outRefs,        \* the array of references the last call returned
    \* ---- TranscriptSynchronizer (app.js) ----
    appPc,          \* per process() run: "unstarted", "extract", "parse", "align" or "ended"
    runs,           \* number of process() runs started
    pdfFile,        \* this.pdfFile is set
    srtFile,        \* this.srtFile is set
    pdfResult,      \* per run: what pdfParser.extractText resolved to
    progressHidden, \* progressBar has class hidden
    resultHidden,   \* resultSection has class hidden
    errorHidden,    \* errorSection has class hidden
    errorText,      \* errorText.textContent
    processBtnDisabled, \* processBtn.disabled
    resultSRT,      \* this.resultSRT
    outcome         \* history, per run: resultSRT when it began, how it ended, segments aligned

alignVars == <<pdfSegments, srtSubtitles, pc, startIndex, i, srtIndex, match, anchors, result,
               spans>>
codecVars == <<cpc, ms, timeStr, parsed>>
reshapeVars == <<rpc, segments, processed>>
mergeVars == <<mergePc, toMerge, merged, remerged>>
scoreVars == <<scorePc, tokens1, tokens2, similarity>>
matchVars == <<scanPc, targetWords, entries, searchFrom, scanI, scanJ, bestMatch, bestScore,
               scanned, scanResult>>
appVars == <<appPc, runs, pdfFile, srtFile, pdfResult, progressHidden, resultHidden,
             errorHidden, errorText, processBtnDisabled, resultSRT, outcome>>
heapVars == <<heapPc, heap, heapBefore, argRefs, outRefs>>
unitVars == <<mergeVars, scoreVars, matchVars, heapVars>>
vars == <<alignVars, codecVars, reshapeVars, unitVars, appVars>>

(***************************************************************************)
(* JavaScript primitives                                                   *)
(***************************************************************************)
Min(a, b) == IF a <= b THEN a ELSE b
Max(a, b) == IF a >= b THEN a ELSE b

\* s.charAt(k-1): the k-th character of a string, as a one-character string
CharAt(s, k) == SubSeq(s, k, k)

\* Math.floor(n / d) for d > 0
Floor(n, d) == n \div d

\* n % d of JavaScript: the remainder has the sign of the dividend
JsRem(n, d) == IF n >= 0 THEN n % d ELSE -((-n) % d)

\* Math.round(n / d) for d > 0: halves round towards +Infinity
Round(n, d) == (2 * n + d) \div (2 * d)

DigitChars == "0123456789"

\* String(n) for an integer n
RECURSIVE NatToString(_)
NatToString(n) ==
    IF n < 10 THEN CharAt(DigitChars, n + 1)
    ELSE NatToString(n \div 10) \o CharAt(DigitChars, (n % 10) + 1)

IntToString(n) == IF n < 0 THEN "-" \o NatToString(-n) ELSE NatToString(n)

\* str.padStart(width, '0')
RECURSIVE PadStart(_, _)
PadStart(str, width) ==
    IF Len(str) >= width THEN str ELSE PadStart("0" \o str, width)

\* A JavaScript number is [nan |-> FALSE, v |-> integer] or NaN
NaN == [nan |-> TRUE]
Num(v) == [nan |-> FALSE, v |-> v]

DigitValue(c) == CHOOSE d \in 0..9 : CharAt(DigitChars, d + 1) = c

IsDigits(str) == \A k \in 1..Len(str) : \E d \in 0..9 : CharAt(DigitChars, d + 1) = CharAt(str, k)

RECURSIVE DigitsToNat(_)
DigitsToNat(str) ==
    IF Len(str) = 0 THEN 0
    ELSE 10 * DigitsToNat(SubSeq(str, 1, Len(str) - 1)) + DigitValue(CharAt(str, Len(str)))

\* Number(str) for a string of decimal digits with an optional sign;
\* NaN for anything else (Number("") is 0)
Number(str) ==
    IF IsDigits(str) THEN Num(DigitsToNat(str))
    ELSE IF Len(str) > 1 /\ CharAt(str, 1) = "-" /\ IsDigits(SubSeq(str, 2, Len(str)))
         THEN Num(-DigitsToNat(SubSeq(str, 2, Len(str))))
         ELSE NaN

\* str.split(sep) for a one-character separator
RECURSIVE SplitChar(_, _)
SplitChar(str, sep) ==
    IF \E k \in 1..Len(str) : CharAt(str, k) = sep
    THEN LET k == CHOOSE k \in 1..Len(str) :
                     /\ CharAt(str, k) = sep
                     /\ \A m \in 1..(k - 1) : CharAt(str, m) # sep
         IN  <<SubSeq(str, 1, k - 1)>> \o SplitChar(SubSeq(str, k + 1, Len(str)), sep)
    ELSE <<str>>

(***************************************************************************)
(* SRTParser: time codec                                                   *)
(***************************************************************************)
\* timeToMs: a field that is missing (`undefined`) or not numeric makes the sum NaN
timeToMs(time) ==
    LET parts == SplitChar(time, ",")
        hms   == SplitChar(parts[1], ":")
        hours   == Number(hms[1])
        minutes == IF Len(hms) >= 2 THEN Number(hms[2]) ELSE NaN
        seconds == IF Len(hms) >= 3 THEN Number(hms[3]) ELSE NaN
        millis  == IF Len(parts) >= 2 THEN Number(parts[2]) ELSE NaN
    IN  IF hours.nan \/ minutes.nan \/ seconds.nan \/ millis.nan THEN NaN
        ELSE Num((hours.v * 3600000) + (minutes.v * 60000) + (seconds.v * 1000) + millis.v)

msToTimeNoHourMod(t) ==
    LET hours        == Floor(t, 3600000)
        minutes      == Floor(t, 60000)
        seconds      == Floor(JsRem(t, 60000), 1000)
        milliseconds == JsRem(t, 1000)
    IN  PadStart(IntToString(hours), 2) \o ":" \o PadStart(IntToString(minutes), 2) \o ":"
           \o PadStart(IntToString(seconds), 2) \o "," \o PadStart(IntToString(milliseconds), 3)

msToTime(t) ==
    LET hours        == Floor(t, 3600000)
        minutes      == Floor(JsRem(t, 3600000), 60000)
        seconds      == Floor(JsRem(t, 60000), 1000)
        milliseconds == JsRem(t, 1000)
    IN  PadStart(IntToString(hours), 2) \o ":" \o PadStart(IntToString(minutes), 2) \o ":"
           \o PadStart(IntToString(seconds), 2) \o "," \o PadStart(IntToString(milliseconds), 3)

(***************************************************************************)
(* TextAligner.cleanText and the tokenizer  text.split(/\s+/)              *)
(* Inside the normalizer a string is the sequence of its characters.       *)
(***************************************************************************)
UpperChars == "ABCDEFGHIJKLMNOPQRSTUVWXYZ"
LowerChars == "abcdefghijklmnopqrstuvwxyz"

\* the characters of a string, in order
Chars(s) == [k \in 1..Len(s) |-> CharAt(s, k)]

\* \s of a JavaScript regular expression (the members that occur in the inputs)
WhitespaceChars == {" ", "\t", "\n"}

\* \w of a JavaScript regular expression: [A-Za-z0-9_]
WordChars ==
    {CharAt(UpperChars, k) : k \in 1..26} \cup {CharAt(LowerChars, k) : k \in 1..26}
        \cup {CharAt(DigitChars, k) : k \in 1..10} \cup {"_"}

IsSpace(c) == c \in WhitespaceChars

\* the first position >= k whose character is whitespace (space = TRUE) or is
\* not (space = FALSE); Len(cs) + 1 when there is none
RECURSIVE FirstAt(_, _, _)
FirstAt(cs, k, space) ==
    IF k > Len(cs) \/ IsSpace(cs[k]) = space THEN k ELSE FirstAt(cs, k + 1, space)

\* the last position <= k whose character is not whitespace; 0 when there is none
RECURSIVE LastInked(_, _)
LastInked(cs, k) ==
    IF k = 0 \/ ~IsSpace(cs[k]) THEN k ELSE LastInked(cs, k - 1)

\* str.trim()
Trim(cs) == SubSeq(cs, FirstAt(cs, 1, FALSE), LastInked(cs, Len(cs)))

\* .replace(/\s+/g, ' '): every maximal run of whitespace becomes one space
CollapseWhitespace(cs) ==
    LET kept == SelectSeq([k \in 1..Len(cs) |-> k],
                          LAMBDA k : ~IsSpace(cs[k]) \/ k = 1 \/ ~IsSpace(cs[k - 1]))
    IN  [m \in 1..Len(kept) |-> IF IsSpace(cs[kept[m]]) THEN " " ELSE cs[kept[m]]]

\* .replace(/[class]/g, by): every character of the class becomes `by`
ReplaceClass(cs, class, by) == [k \in 1..Len(cs) |-> IF cs[k] \in class THEN by ELSE cs[k]]

\* .replace(/[^\w\s'"]/g, '')
StripPunctuation(cs) ==
    SelectSeq(cs, LAMBDA c : c \in WordChars \/ IsSpace(c) \/ c = "'" \/ c = "\"")

UpperSet == {CharAt(UpperChars, k) : k \in 1..26}

LowerOf == [c \in UpperSet |-> CharAt(LowerChars, CHOOSE k \in 1..26 : c = CharAt(UpperChars, k))]

\* .toLowerCase()
ToLowerCase(cs) == [k \in 1..Len(cs) |-> IF cs[k] \in UpperSet THEN LowerOf[cs[k]] ELSE cs[k]]

\* In the source both quote classes hold the straight quote only, so the two
\* quote replacements map '"' to '"' and "'" to "'".
cleanText(text) ==
    Trim(ToLowerCase(StripPunctuation(
        ReplaceClass(ReplaceClass(CollapseWhitespace(Chars(text)), {"\""}, "\""), {"'"}, "'"))))

\* str.split(/\s+/) from position k on: the pieces between maximal runs of
\* whitespace; the empty string yields the one-element sequence <<"">>
RECURSIVE SplitFrom(_, _)
SplitFrom(cs, k) ==
    LET e == FirstAt(cs, k, TRUE)
    IN  IF e > Len(cs) THEN <<SubSeq(cs, k, Len(cs))>>
        ELSE <<SubSeq(cs, k, e - 1)>> \o SplitFrom(cs, FirstAt(cs, e, FALSE))

SplitWhitespace(cs) == SplitFrom(cs, 1)

\* this.cleanText(text).split(/\s+/)
Words(text) == SplitWhitespace(cleanText(text))

(***************************************************************************)
(* Exact fractions [n, d] with d > 0 and n >= 0                            *)
(***************************************************************************)
\* a/b < c/d, computed without forming the cross products
RECURSIVE FracLess(_, _, _, _)
FracLess(a, b, c, d) ==
    LET qa == a \div b
        qc == c \div d
        ra == a % b
        rc == c % d
    IN  IF qa # qc THEN qa < qc
        ELSE IF rc = 0 THEN FALSE
        ELSE IF ra = 0 THEN TRUE
        ELSE FracLess(d, rc, b, ra)

Less(x, y) == FracLess(x.n, x.d, y.n, y.d)
AtLeast(x, y) == ~Less(x, y)
Greater(x, y) == Less(y, x)

(***************************************************************************)
(* TextAligner.calculateSimilarity                                         *)
(***************************************************************************)
SetOf(words) == {words[k] : k \in 1..Len(words)}

\* counts every pair of equal words
sequentialMatchesAnyPair(words1, words2, a, b) ==
    Cardinality({pair \in (1..Len(words1)) \X (1..Len(words2)) : words1[pair[1]] = words2[pair[2]]})

\* the two-pointer loop: a walks words1, b is the cursor into words2
RECURSIVE sequentialMatches(_, _, _, _)
sequentialMatches(words1, words2, a, b) ==
    IF a > Len(words1) \/ b > Len(words2) THEN 0
    ELSE IF words1[a] = words2[b]
         THEN 1 + sequentialMatches(words1, words2, a + 1, b + 1)
         ELSE sequentialMatches(words1, words2, a + 1, b)

\* (jaccard * 0.5) + (lengthRatio * 0.2) + (sequentialScore * 0.3)
\*   = (5*I*mx + 2*mn*U + 3*seq*U) / (10*U*mx)
calculateSimilarity(words1, words2) ==
    LET set1 == SetOf(words1)
        set2 == SetOf(words2)
        I    == Cardinality(set1 \cap set2)
        U    == Cardinality(set1 \cup set2)
        mn   == Min(Len(words1), Len(words2))
        mx   == Max(Len(words1), Len(words2))
        seq  == sequentialMatches(words1, words2, 1, 1)
    IN  [n |-> 5 * I * mx + 2 * mn * U + 3 * seq * U, d |-> 10 * U * mx]

(***************************************************************************)
(* TextAligner.findBestMatch                                               *)
(***************************************************************************)
\* null / undefined
NoMatch == [null |-> TRUE]

FIND_MIN_CONFIDENCE == [n |-> 1, d |-> 4]      \* MIN_CONFIDENCE = 0.25
HIGH_SCORE == [n |-> 3, d |-> 4]               \* 0.75
maxRangeSize == 30
maxWindow == 30
penaltyFreeSize == 15
earlyStopSize == 20

\* srtSubtitles.slice(from, to + 1).map(s => s.text).join(' '), 0-based
RECURSIVE rangeText(_, _, _)
rangeText(subs, from, to) ==
    IF from = to THEN subs[from + 1].text
    ELSE rangeText(subs, from, to - 1) \o " " \o subs[to + 1].text

\* no size penalty
penalizedNever(rawScore, rangeSize) == rawScore

\* rawScore * sizePenalty, sizePenalty = 1 - (rangeSize - 15) * 0.02
penalized(rawScore, rangeSize) ==
    IF rangeSize > penaltyFreeSize
    THEN [n |-> rawScore.n * (50 - (rangeSize - penaltyFreeSize)), d |-> rawScore.d * 50]
    ELSE rawScore

\* the inner loop over j, from j on; best = [match, score]
RECURSIVE scanEnds(_, _, _, _, _)
scanEnds(pdfWords, subs, from, j, best) ==
    IF j >= Min(from + maxRangeSize, Len(subs)) THEN best
    ELSE LET srtWords  == Words(rangeText(subs, from, j))
             rawScore  == calculateSimilarity(pdfWords, srtWords)
             rangeSize == j - from + 1
             score     == penalized(rawScore, rangeSize)
             best1     == IF Greater(score, best.score)
                          THEN [match |-> [startIndex |-> from, endIndex |-> j,
                                           startMs |-> subs[from + 1].startMs,
                                           endMs |-> subs[j + 1].endMs,
                                           confidence |-> rawScore,
                                           rangeSize |-> rangeSize],
                                score |-> score]
                          ELSE best
         IN  IF Greater(score, HIGH_SCORE) /\ rangeSize <= earlyStopSize THEN best1
             ELSE scanEnds(pdfWords, subs, from, j + 1, best1)

\* the outer loop over i, from `from` on
RECURSIVE scanStarts(_, _, _, _, _)
scanStarts(pdfWords, subs, start, from, best) ==
    LET windowSize == Min(maxWindow, Len(subs) - start)
    IN  IF from >= Min(start + windowSize, Len(subs)) THEN best
        ELSE LET best1 == scanEnds(pdfWords, subs, from, from, best)
             IN  IF Greater(best1.score, HIGH_SCORE) THEN best1
                 ELSE scanStarts(pdfWords, subs, start, from + 1, best1)

\* variant: every search starts at the first timed entry
findBestMatchFromZero(pdfWords, subs, start) ==
    LET best == scanStarts(pdfWords, subs, 0, 0,
                           [match |-> NoMatch, score |-> [n |-> 0, d |-> 1]])
    IN  IF best.match # NoMatch /\ AtLeast(best.match.confidence, FIND_MIN_CONFIDENCE)
        THEN best.match
        ELSE NoMatch

findBestMatch(pdfWords, subs, start) ==
    LET best == scanStarts(pdfWords, subs, start, start,
                           [match |-> NoMatch, score |-> [n |-> 0, d |-> 1]])
    IN  IF best.match # NoMatch /\ AtLeast(best.match.confidence, FIND_MIN_CONFIDENCE)
        THEN best.match
        ELSE NoMatch

(***************************************************************************)
(* TextAligner.findTranscriptStart                                         *)
(***************************************************************************)
START_MIN_CONFIDENCE == [n |-> 2, d |-> 5]     \* MIN_CONFIDENCE = 0.4
SEARCH_LIMIT_MAX == 20
MIN_START_WORDS == 5

\* variant: short turns are probed like any other turn
RECURSIVE probeFromAnyLength(_, _, _)
probeFromAnyLength(pdf, subs, k) ==
    IF k >= Min(SEARCH_LIMIT_MAX, Len(pdf)) THEN 0
    ELSE LET m == findBestMatch(Words(pdf[k + 1].text), subs, 0)
         IN  IF m # NoMatch /\ AtLeast(m.confidence, START_MIN_CONFIDENCE) THEN k
             ELSE probeFromAnyLength(pdf, subs, k + 1)

\* the probe loop from turn k (0-based) on
RECURSIVE probeFrom(_, _, _)
probeFrom(pdf, subs, k) ==
    IF k >= Min(SEARCH_LIMIT_MAX, Len(pdf)) THEN 0
    ELSE LET pdfWords == Words(pdf[k + 1].text)
         IN  IF Len(pdfWords) < MIN_START_WORDS THEN probeFrom(pdf, subs, k + 1)
             ELSE LET m == findBestMatch(pdfWords, subs, 0)
                  IN  IF m # NoMatch /\ AtLeast(m.confidence, START_MIN_CONFIDENCE) THEN k
                      ELSE probeFrom(pdf, subs, k + 1)

findTranscriptStart(pdf, subs) == probeFrom(pdf, subs, 0)

(***************************************************************************)
(* TextAligner.interpolateTimestamp                                        *)
(***************************************************************************)
MAX_INTERPOLATED_MS == 3000

\* no cap: Math.round(startMs + (num / den) * 0.8)
cappedEndUncapped(startMs, num, den) == Round(startMs * 5 * den + 4 * num, 5 * den)

\* Math.round(startMs + Math.min(3000, (num / den) * 0.8)), den > 0
cappedEnd(startMs, num, den) ==
    IF 4 * num < 5 * den * MAX_INTERPOLATED_MS
    THEN Round(startMs * 5 * den + 4 * num, 5 * den)
    ELSE startMs + MAX_INTERPOLATED_MS

\* the loop that picks prevAnchor and nextAnchor, from anchor k (1-based) on
RECURSIVE neighbours(_, _, _, _)
neighbours(anchs, pdfIndex, k, prev) ==
    IF k > Len(anchs) THEN [prev |-> prev, next |-> NoMatch]
    ELSE IF anchs[k].pdfIndex < pdfIndex THEN neighbours(anchs, pdfIndex, k + 1, anchs[k])
    ELSE IF anchs[k].pdfIndex > pdfIndex THEN [prev |-> prev, next |-> anchs[k]]
    ELSE neighbours(anchs, pdfIndex, k + 1, prev)

interpolateTimestamp(pdfIndex, anchs, totalDurationMs, totalSegments, start) ==
    IF Len(anchs) = 0
    THEN LET relativeIndex == pdfIndex - start
             startMs == Round(relativeIndex * totalDurationMs, totalSegments)
         IN  [startMs |-> startMs, endMs |-> cappedEnd(startMs, totalDurationMs, totalSegments)]
    ELSE
    LET nb == neighbours(anchs, pdfIndex, 1, NoMatch)
        prevAnchor == nb.prev
        nextAnchor == nb.next
    IN  IF prevAnchor # NoMatch /\ nextAnchor # NoMatch
        THEN \* Case 1: between two anchors
             LET segmentsBetween == nextAnchor.pdfIndex - prevAnchor.pdfIndex
                 position == pdfIndex - prevAnchor.pdfIndex
                 timeDiff == nextAnchor.startMs - prevAnchor.endMs
                 startMs  == Round(prevAnchor.endMs * segmentsBetween + timeDiff * position,
                                   segmentsBetween)
             IN  [startMs |-> startMs, endMs |-> cappedEnd(startMs, timeDiff, segmentsBetween)]
        ELSE IF prevAnchor = NoMatch /\ nextAnchor # NoMatch
        THEN \* Case 2: before the first anchor
             LET timeAvailable == nextAnchor.startMs
                 den == nextAnchor.pdfIndex - start
                 relativeIndex == pdfIndex - start
                 startMs == Round(Max(0, relativeIndex * timeAvailable), den)
             IN  [startMs |-> startMs, endMs |-> cappedEnd(startMs, timeAvailable, den)]
        ELSE IF prevAnchor # NoMatch /\ nextAnchor = NoMatch
        THEN \* Case 3: after the last anchor
             LET segmentsAfter == (start + totalSegments - 1) - prevAnchor.pdfIndex
                 timeRemaining == totalDurationMs - prevAnchor.endMs
                 position == pdfIndex - prevAnchor.pdfIndex
                 startMs == Round(prevAnchor.endMs * segmentsAfter + position * timeRemaining,
                                  segmentsAfter)
             IN  [startMs |-> startMs, endMs |-> cappedEnd(startMs, timeRemaining, segmentsAfter)]
        ELSE \* Fallback
             LET relativeIndex == pdfIndex - start
                 startMs == Round(relativeIndex * totalDurationMs, totalSegments)
             IN  [startMs |-> startMs, endMs |-> startMs + MAX_INTERPOLATED_MS]

(***************************************************************************)
(* TextAligner.align                                                       *)
(***************************************************************************)
MIN_ANCHOR_CONFIDENCE == [n |-> 9, d |-> 20]   \* 0.45
END_MARGIN == 5

\* variant: any match anchors the turn
anchorsTurnAnyMatch(m) == m # NoMatch

\* match && match.confidence >= MIN_ANCHOR_CONFIDENCE
anchorsTurn(m) == m # NoMatch /\ AtLeast(m.confidence, MIN_ANCHOR_CONFIDENCE)

\* variant: a failed search skips a whole margin instead of one entry
nextSrtIndexLargeSkip(m, cursor, subs) ==
    IF anchorsTurn(m) THEN m.endIndex + 1
    ELSE Min(cursor + END_MARGIN, Len(subs) - 1)

\* the cursor after one pass 1 iteration
nextSrtIndex(m, cursor, subs) ==
    IF anchorsTurn(m) THEN m.endIndex + 1
    ELSE Min(cursor + 1, Len(subs) - 1)

\* a margin of one entry
pass1ContinuesSmallMargin(k, cursor, pdf, subs) ==
    k < Len(pdf) /\ ~(cursor >= Len(subs) - 1)

\* the loop guard of pass 1 (for condition and break)
pass1Continues(k, cursor, pdf, subs) ==
    k < Len(pdf) /\ ~(cursor >= Len(subs) - END_MARGIN)

\* anchors.find(a => a.pdfIndex === k)
findAnchor(anchs, k) ==
    IF \E a \in 1..Len(anchs) : anchs[a].pdfIndex = k
    THEN anchs[CHOOSE a \in 1..Len(anchs) :
                  /\ anchs[a].pdfIndex = k
                  /\ \A b \in 1..(a - 1) : anchs[b].pdfIndex # k]
    ELSE NoMatch

timed(pdfSegment, startMs, endMs) ==
    [speaker |-> pdfSegment.speaker, text |-> pdfSegment.text,
     startTime |-> msToTime(startMs), endTime |-> msToTime(endMs),
     startMs |-> startMs, endMs |-> endMs]

\* variant: the text and speaker are taken counting from the last turn backwards
pass2SegmentFromEnd(k, pdf, subs, anchs, start) ==
    LET anchor == findAnchor(anchs, k)
        totalDurationMs == subs[Len(subs)].endMs
        totalSegments == Len(pdf) - start
        turn == pdf[Len(pdf) - (k - start)]
    IN  IF anchor # NoMatch
        THEN timed(turn, anchor.startMs, anchor.endMs)
        ELSE LET ip == interpolateTimestamp(k, anchs, totalDurationMs, totalSegments, start)
             IN  timed(turn, ip.startMs, ip.endMs)

\* the segment pass 2 pushes for turn k
pass2Segment(k, pdf, subs, anchs, start) ==
    LET anchor == findAnchor(anchs, k)
        totalDurationMs == subs[Len(subs)].endMs
        totalSegments == Len(pdf) - start
    IN  IF anchor # NoMatch
        THEN timed(pdf[k + 1], anchor.startMs, anchor.endMs)
        ELSE LET ip == interpolateTimestamp(k, anchs, totalDurationMs, totalSegments, start)
             IN  timed(pdf[k + 1], ip.startMs, ip.endMs)

\* variant: single-pass behaviour, a turn without an anchor is dropped
pass2PushAnchoredOnly(res, k, pdf, subs, anchs, start) ==
    IF findAnchor(anchs, k) # NoMatch
    THEN Append(res, pass2Segment(k, pdf, subs, anchs, start))
    ELSE res

\* `result` after the pass 2 iteration for turn k: one push on either branch
pass2Push(res, k, pdf, subs, anchs, start) ==
    Append(res, pass2Segment(k, pdf, subs, anchs, start))

FindStart ==
    /\ pc = "findStart"
    /\ startIndex' = findTranscriptStart(pdfSegments, srtSubtitles)
    /\ i' = startIndex'
    /\ pc' = "pass1"
    /\ UNCHANGED <<pdfSegments, srtSubtitles, srtIndex, match, anchors, result, spans>>
    /\ UNCHANGED <<codecVars, reshapeVars, unitVars, appVars>>

Pass1Iterate ==
    /\ pc = "pass1"
    /\ pass1Continues(i, srtIndex, pdfSegments, srtSubtitles)
    /\ LET pdfSegment == pdfSegments[i + 1]
           pdfWords == Words(pdfSegment.text)
           m == findBestMatch(pdfWords, srtSubtitles, srtIndex)
       IN  /\ match' = m
           /\ anchors' = IF anchorsTurn(m)
                         THEN Append(anchors, [pdfIndex |-> i, speaker |-> pdfSegment.speaker,
                                               startMs |-> m.startMs, endMs |-> m.endMs,
                                               confidence |-> m.confidence])
                         ELSE anchors
           /\ spans' = IF anchorsTurn(m)
                       THEN Append(spans, [startIndex |-> m.startIndex, endIndex |-> m.endIndex])
                       ELSE spans
           /\ srtIndex' = nextSrtIndex(m, srtIndex, srtSubtitles)
    /\ i' = i + 1
    /\ UNCHANGED <<pdfSegments, srtSubtitles, pc, startIndex, result>>
    /\ UNCHANGED <<codecVars, reshapeVars, unitVars, appVars>>

\* pass 1 is over; reading the last timed entry's endMs throws when there is none
Pass1Exit ==
    /\ pc = "pass1"
    /\ ~pass1Continues(i, srtIndex, pdfSegments, srtSubtitles)
    /\ pc' = IF Len(srtSubtitles) = 0 THEN "threw" ELSE "pass2"
    /\ i' = startIndex
    /\ UNCHANGED <<pdfSegments, srtSubtitles, startIndex, srtIndex, match, anchors, result,
                   spans>>
    /\ UNCHANGED <<codecVars, reshapeVars, unitVars, appVars>>

Pass2Iterate ==
    /\ pc = "pass2"
    /\ i < Len(pdfSegments)
    /\ result' = pass2Push(result, i, pdfSegments, srtSubtitles, anchors, startIndex)
    /\ i' = i + 1
    /\ UNCHANGED <<pdfSegments, srtSubtitles, pc, startIndex, srtIndex, match, anchors, spans>>
    /\ UNCHANGED <<codecVars, reshapeVars, unitVars, appVars>>

Return ==
    /\ pc = "pass2"
    /\ i >= Len(pdfSegments)
    /\ pc' = "returned"
    /\ UNCHANGED <<pdfSegments, srtSubtitles, startIndex, i, srtIndex, match, anchors, result,
                   spans>>
    /\ UNCHANGED <<codecVars, reshapeVars, unitVars, appVars>>

(***************************************************************************)
(* SRTParser.splitTextIntoChunks                                           *)
(***************************************************************************)
maxLength == 200

IsStop(c) == c \in {".", "!", "?"}

SetMin(S) == CHOOSE x \in S : \A y \in S : x <= y
SetMax(S) == CHOOSE x \in S : \A y \in S : x >= y

\* the first position >= k of text whose character is a sentence stop
\* (stop = TRUE) or is not (stop = FALSE); Len(text) + 1 when there is none
FirstStopAt(text, k, stop) ==
    LET at == {j \in k..Len(text) : IsStop(CharAt(text, j)) = stop}
    IN  IF at = {} THEN Len(text) + 1 ELSE SetMin(at)

\* text.match(/[^.!?]+[.!?]+/g) from position p on: each match is a maximal
\* run of non-stops followed by a maximal run of stops; stops with nothing
\* before them and a tail without a stop are in no match
RECURSIVE matchSentences(_, _)
matchSentences(text, p) ==
    LET q == FirstStopAt(text, p, FALSE)
        r == FirstStopAt(text, q, TRUE)
        e == FirstStopAt(text, r, FALSE) - 1
    IN  IF q > Len(text) \/ r > Len(text) THEN <<>>
        ELSE <<SubSeq(text, q, e)>> \o matchSentences(text, e + 1)

\* text.match(...) || [text]
sentencesOf(text) ==
    IF matchSentences(text, 1) = <<>> THEN <<text>> ELSE matchSentences(text, 1)

\* str.trim() on a string
TrimString(str) ==
    LET inked == {k \in 1..Len(str) : ~IsSpace(CharAt(str, k))}
    IN  IF inked = {} THEN "" ELSE SubSeq(str, SetMin(inked), SetMax(inked))

\* the loop over the pieces (sentences, or words joined by `glue`) from piece k
\* on; acc = [chunks, currentChunk]
RECURSIVE packPieces(_, _, _, _)
packPieces(pieces, k, acc, wordMode) ==
    IF k > Len(pieces) THEN acc
    ELSE LET piece == pieces[k]
             glued == IF wordMode THEN acc.currentChunk \o " " \o piece
                      ELSE acc.currentChunk \o piece
             grown == IF wordMode
                      THEN acc.currentChunk \o (IF acc.currentChunk # "" THEN " " ELSE "") \o piece
                      ELSE acc.currentChunk \o piece
         IN  IF Len(glued) > maxLength /\ acc.currentChunk # ""
             THEN packPieces(pieces, k + 1,
                             [chunks |-> Append(acc.chunks, TrimString(acc.currentChunk)),
                              currentChunk |-> piece], wordMode)
             ELSE packPieces(pieces, k + 1,
                             [chunks |-> acc.chunks, currentChunk |-> grown], wordMode)

\* if (currentChunk) chunks.push(currentChunk.trim())
flushChunk(acc) ==
    IF acc.currentChunk # "" THEN Append(acc.chunks, TrimString(acc.currentChunk))
    ELSE acc.chunks

splitTextIntoChunks(text) ==
    LET bySentence == flushChunk(packPieces(sentencesOf(text), 1,
                                            [chunks |-> <<>>, currentChunk |-> ""], FALSE))
        byWord     == flushChunk(packPieces(SplitChar(text, " "), 1,
                                            [chunks |-> <<>>, currentChunk |-> ""], TRUE))
        chunks     == IF Len(bySentence) = 0 THEN byWord ELSE bySentence
    IN  IF Len(chunks) > 0 THEN chunks ELSE <<text>>

(***************************************************************************)
(* TextAligner.splitLongSegments and processSegments                       *)
(***************************************************************************)
maxDuration == 120000

\* variant: each chunk ends one rounded share after its start, the last included
chunkSegmentByWidth(segment, chunks, index) ==
    LET duration == segment.endMs - segment.startMs
        n == Len(chunks)
        startMs == Round(segment.startMs * n + duration * index, n)
        endMs == startMs + Round(duration, n)
    IN  [speaker |-> segment.speaker, text |-> chunks[index + 1],
         startTime |-> msToTime(startMs), endTime |-> msToTime(endMs),
         startMs |-> startMs, endMs |-> endMs]

\* the record pushed for chunk `index` (0-based); timePerChunk = duration / n
chunkSegment(segment, chunks, index) ==
    LET duration == segment.endMs - segment.startMs
        n == Len(chunks)
        startMs == Round(segment.startMs * n + duration * index, n)
        endMs == IF index = n - 1 THEN segment.endMs
                 ELSE Round(segment.startMs * n + duration * (index + 1), n)
    IN  [speaker |-> segment.speaker, text |-> chunks[index + 1],
         startTime |-> msToTime(startMs), endTime |-> msToTime(endMs),
         startMs |-> startMs, endMs |-> endMs]

\* what one input segment contributes to the result
splitSegment(segment) ==
    IF segment.endMs - segment.startMs <= maxDuration THEN <<segment>>
    ELSE LET chunks == splitTextIntoChunks(segment.text)
         IN  [k \in 1..Len(chunks) |-> chunkSegment(segment, chunks, k - 1)]

RECURSIVE splitLongSegments(_)
splitLongSegments(segs) ==
    IF segs = <<>> THEN <<>>
    ELSE splitSegment(Head(segs)) \o splitLongSegments(Tail(segs))

\* processSegments only splits; it does not call filterSpeakerChanges
processSegments(segs) == splitLongSegments(segs)

(***************************************************************************)
(* Inputs of an alignment run                                              *)
(***************************************************************************)
MaxTurns == 3
MaxSrt == 7
MaxFront == 21

\* the timed transcript is a prefix of this script (repeated when longer)
ScriptTexts == <<"hello world", "how are you", "I'm ok.", "--",
                 "go on", "It was", "so far", "in a bar">>

Timings == {"contiguous", "gapped"}

\* "tight": captions 1 and 2 last one millisecond each, the others follow on
tightStart(k) == IF k = 0 THEN 0 ELSE IF k <= 2 THEN 1999 + k ELSE 2000 * (k - 2) + 2

\* "contiguous": 2 s captions back to back; "gapped": 1 s between captions;
\* "sparse": 8 s between captions
timedEntry(k, timing) ==
    [startMs |-> CASE timing = "gapped" -> 3000 * k
                   [] timing = "sparse" -> 10000 * k
                   [] timing = "tight"  -> tightStart(k)
                   [] OTHER             -> 2000 * k,
     endMs   |-> CASE timing = "gapped" -> 3000 * k + 2000
                   [] timing = "sparse" -> 10000 * k + 2000
                   [] timing = "tight"  -> tightStart(k + 1)
                   [] OTHER             -> 2000 * k + 2000,
     text    |-> ScriptTexts[(k % Len(ScriptTexts)) + 1]]

timedScript(n, timing) == [k \in 1..n |-> timedEntry(k - 1, timing)]

\* lengths at which pass 1 cannot run (0, 1, 2) and lengths at which it can
SrtLengths == {0, 1, 2} \cup ((END_MARGIN + 1)..MaxSrt)

EchoTurn   == [speaker |-> "A", text |-> "hello world how are you"]
HeaderTurn == [speaker |-> "T", text |-> "Interview Consent Form"]
ShortTurn  == [speaker |-> "B", text |-> "I'm ok"]
AlienTurn  == [speaker |-> "A", text |-> "no such words said ever"]
DotsTurn   == [speaker |-> "B", text |-> "..."]
LooseTurn  == [speaker |-> "A", text |-> "hello there how were you today"]
HelloTurn  == [speaker |-> "B", text |-> "hello world"]
GoOnTurn   == [speaker |-> "A", text |-> "go on"]
HowTurn    == [speaker |-> "B", text |-> "how are you"]

CorePool == {EchoTurn, HeaderTurn, AlienTurn}
TurnPool == CorePool \cup {LooseTurn, ShortTurn, DotsTurn}

\* h front-matter turns followed by one body turn
fronted(h, front, body) == [k \in 1..(h + 1) |-> IF k <= h THEN front ELSE body]

IdleCodec == cpc = "idle" /\ ms = 0 /\ timeStr = "" /\ parsed = NaN
IdleReshape == rpc = "idle" /\ segments = <<>> /\ processed = <<>>
IdleMerge == mergePc = "idle" /\ toMerge = <<>> /\ merged = <<>> /\ remerged = <<>>
IdleScore == scorePc = "idle" /\ tokens1 = <<>> /\ tokens2 = <<>> /\ similarity = [n |-> 0, d |-> 1]
IdleMatch ==
    /\ scanPc = "idle" /\ targetWords = <<>> /\ entries = <<>> /\ searchFrom = 0
    /\ scanI = 0 /\ scanJ = 0 /\ bestMatch = NoMatch /\ bestScore = [n |-> 0, d |-> 1]
    /\ scanned = <<>> /\ scanResult = NoMatch
IdleHeap ==
    /\ heapPc = "idle" /\ heap = <<>> /\ heapBefore = <<>> /\ argRefs = <<>> /\ outRefs = <<>>
IdleUnits == IdleMerge /\ IdleScore /\ IdleMatch /\ IdleHeap
IdleApp ==
    /\ appPc = <<>> /\ runs = 0 /\ pdfFile = FALSE /\ srtFile = FALSE /\ pdfResult = <<>>
    /\ progressHidden = TRUE /\ resultHidden = TRUE /\ errorHidden = TRUE /\ errorText = ""
    /\ processBtnDisabled = TRUE /\ resultSRT = NoMatch /\ outcome = <<>>
IdleAlign ==
    /\ pc = "idle" /\ pdfSegments = <<>> /\ srtSubtitles = <<>>
    /\ startIndex = 0 /\ i = 0 /\ srtIndex = 0 /\ match = NoMatch
    /\ anchors = <<>> /\ result = <<>> /\ spans = <<>>

StartOfRun ==
    /\ pc = "findStart"
    /\ startIndex = 0 /\ i = 0 /\ srtIndex = 0 /\ match = NoMatch
    /\ anchors = <<>> /\ result = <<>> /\ spans = <<>>
    /\ IdleCodec /\ IdleReshape /\ IdleUnits /\ IdleApp

\* every sequence of at most MaxTurns turns of the core pool, and every
\* sequence of fewer turns of the whole pool, against every script
InitPool ==
    /\ \E n \in SrtLengths : \E timing \in Timings : srtSubtitles = timedScript(n, timing)
    /\ \/ \E m \in 0..MaxTurns : pdfSegments \in [1..m -> CorePool]
       \/ \E m \in 1..(MaxTurns - 1) : pdfSegments \in [1..m -> TurnPool]
    /\ StartOfRun

\* up to MaxFront front-matter turns before the first body turn
InitFrontMatter ==
    /\ \E n \in {2, MaxSrt} : srtSubtitles = timedScript(n, "contiguous")
    /\ \E h \in 0..MaxFront : \E front \in {HeaderTurn, AlienTurn} :
          \E body \in {EchoTurn, LooseTurn} : pdfSegments = fronted(h, front, body)
    /\ StartOfRun

\* the same script with its second caption staying on screen for a minute,
\* over the captions that follow it
lingering(subs) == [subs EXCEPT ![2].endMs = 60000]

\* one or two turns against a script with a lingering caption
InitLingering ==
    /\ \E n \in {END_MARGIN + 1, MaxSrt} :
          srtSubtitles = lingering(timedScript(n, "contiguous"))
    /\ \E m \in 1..2 : pdfSegments \in [1..m -> {EchoTurn, AlienTurn}]
    /\ StartOfRun

AnchorTimings == {"contiguous", "tight", "sparse"}

\* scripts long enough for pass 1 to search again after a first anchor, and
\* turns that each echo one caption or none
InitTwoAnchors ==
    /\ \E n \in {MaxSrt + 1, MaxSrt + 2} : \E timing \in AnchorTimings :
          srtSubtitles = timedScript(n, timing)
    /\ \/ pdfSegments \in [1..3 -> {HelloTurn, AlienTurn, ShortTurn}]
       \/ pdfSegments = <<HelloTurn, AlienTurn, AlienTurn, GoOnTurn>>
       \/ pdfSegments = <<AlienTurn, HowTurn, AlienTurn, GoOnTurn, AlienTurn>>
    /\ StartOfRun

Init == InitPool \/ InitFrontMatter \/ InitLingering \/ InitTwoAnchors

Next == FindStart \/ Pass1Iterate \/ Pass1Exit \/ Pass2Iterate \/ Return

Spec == Init /\ [][Next]_vars

(***************************************************************************)
(* A time codec run: msToTime, then timeToMs on its result                 *)
(***************************************************************************)
MaxHours == 100

MsSamples ==
    {h * 3600000 + m * 60000 + sec * 1000 + k :
        h \in {0, 9, 10, MaxHours}, m \in {0, 9, 59}, sec \in {0, 10, 59}, k \in {0, 7, 99, 999}}

InitCodec ==
    /\ cpc = "format" /\ ms \in MsSamples /\ timeStr = "" /\ parsed = NaN
    /\ IdleAlign /\ IdleReshape /\ IdleUnits /\ IdleApp

Format ==
    /\ cpc = "format"
    /\ timeStr' = msToTime(ms)
    /\ cpc' = "parse"
    /\ UNCHANGED <<ms, parsed, alignVars, reshapeVars, unitVars, appVars>>

Parse ==
    /\ cpc = "parse"
    /\ parsed' = timeToMs(timeStr)
    /\ cpc' = "done"
    /\ UNCHANGED <<ms, timeStr, alignVars, reshapeVars, unitVars, appVars>>

NextCodec == Format \/ Parse

SpecCodec == InitCodec /\ [][NextCodec]_vars

(***************************************************************************)
(* A reshaper run: processSegments on a sequence of aligned segments       *)
(***************************************************************************)
MaxSegs == 2
LongWords == 30

RECURSIVE Repeat(_, _)
Repeat(str, n) == IF n = 0 THEN "" ELSE str \o Repeat(str, n - 1)

\* one sentence of 5 * LongWords + 4 characters
LongSentence == Repeat("word ", LongWords) \o "end."

SegmentTexts ==
    { "One. Two! Three? Four.",
      LongSentence \o " " \o LongSentence,
      LongSentence \o " Yes?! " \o LongSentence \o " " \o LongSentence,
      LongSentence \o " " \o LongSentence \o " and then",
      Repeat("word ", LongWords + 20) \o "end",
      "" }

SegmentDurations == {60000, 120000, 120001, 150000, 300001}

SegmentShapes == [text : SegmentTexts, duration : SegmentDurations]

\* n segments back to back from `from`, shapes a and b and speakers A and B in turn
alternating(n, from, a, b) ==
    [k \in 1..n |->
        LET shape == IF k % 2 = 1 THEN a ELSE b
            startMs == from + ((k - 1) \div 2) * (a.duration + b.duration)
                            + (IF k % 2 = 1 THEN 0 ELSE a.duration)
        IN  [speaker |-> IF k % 2 = 1 THEN "A" ELSE "B", text |-> shape.text,
             startTime |-> msToTime(startMs), endTime |-> msToTime(startMs + shape.duration),
             startMs |-> startMs, endMs |-> startMs + shape.duration]]

InitReshape ==
    /\ rpc = "process"
    /\ \E n \in 1..MaxSegs : \E from \in {0, 1500} : \E a \in SegmentShapes : \E b \in SegmentShapes :
          segments = alternating(n, from, a, b)
    /\ processed = <<>>
    /\ IdleAlign /\ IdleCodec /\ IdleUnits /\ IdleApp

Process ==
    /\ rpc = "process"
    /\ processed' = processSegments(segments)
    /\ rpc' = "done"
    /\ UNCHANGED <<segments, alignVars, codecVars, unitVars, appVars>>

\* the same segments, all spoken by one speaker
relabelled(segs, speaker) == [k \in 1..Len(segs) |-> [segs[k] EXCEPT !.speaker = speaker]]

ShortShapes == [text : {"One. Two! Three? Four.", ""}, duration : SegmentDurations]

\* consecutive segments of the same speaker
InitSameSpeaker ==
    /\ rpc = "process"
    /\ \E n \in 2..MaxSegs : \E a \in ShortShapes : \E b \in ShortShapes :
          segments = relabelled(alternating(n, 0, a, b), "A")
    /\ processed = <<>>
    /\ IdleAlign /\ IdleCodec /\ IdleUnits /\ IdleApp

NextReshape == Process

SpecReshape == (InitReshape \/ InitSameSpeaker) /\ [][NextReshape]_vars

(***************************************************************************)
(* TextAligner.filterSpeakerChanges                                        *)
(***************************************************************************)
\* one iteration of the loop over the segments; run = [result, currentSegment]
filterStepRestart(run, segment) ==
    IF run.currentSegment = NoMatch \/ run.currentSegment.speaker # segment.speaker
    THEN [result |-> IF run.currentSegment # NoMatch
                     THEN Append(run.result, run.currentSegment) ELSE run.result,
          currentSegment |-> segment]
    ELSE [result |-> Append(run.result,
                            [run.currentSegment EXCEPT !.text = @ \o " " \o segment.text,
                                                       !.endTime = segment.endTime,
                                                       !.endMs = segment.endMs]),
          currentSegment |-> NoMatch]

filterStep(run, segment) ==
    IF run.currentSegment = NoMatch \/ run.currentSegment.speaker # segment.speaker
    THEN [result |-> IF run.currentSegment # NoMatch
                     THEN Append(run.result, run.currentSegment) ELSE run.result,
          currentSegment |-> segment]
    ELSE [result |-> run.result,
          currentSegment |-> [run.currentSegment EXCEPT !.text = @ \o " " \o segment.text,
                                                        !.endTime = segment.endTime,
                                                        !.endMs = segment.endMs]]

RECURSIVE filterFrom(_, _, _)
filterFrom(segs, k, run) ==
    IF k > Len(segs) THEN run ELSE filterFrom(segs, k + 1, filterStep(run, segs[k]))

\* variant: without the push of the final segment after the loop
filterSpeakerChangesNoFinalPush(segs) ==
    filterFrom(segs, 1, [result |-> <<>>, currentSegment |-> NoMatch]).result

filterSpeakerChanges(segs) ==
    LET run == filterFrom(segs, 1, [result |-> <<>>, currentSegment |-> NoMatch])
    IN  IF run.currentSegment # NoMatch THEN Append(run.result, run.currentSegment)
        ELSE run.result

(***************************************************************************)
(* A merge run: filterSpeakerChanges, then filterSpeakerChanges again on   *)
(* its result                                                              *)
(***************************************************************************)
MaxMerge == 4

MergeSpeakers == {"A", "B"}
MergeTexts == {"Yes.", "go on"}

\* n back-to-back one-second segments
mergeInput(speakers, texts) ==
    [k \in 1..Len(speakers) |->
        [speaker |-> speakers[k], text |-> texts[k],
         startTime |-> msToTime(1000 * (k - 1)), endTime |-> msToTime(1000 * k),
         startMs |-> 1000 * (k - 1), endMs |-> 1000 * k]]

InitMerge ==
    /\ mergePc = "merge"
    /\ \E n \in 0..MaxMerge : \E speakers \in [1..n -> MergeSpeakers] :
          \E texts \in [1..n -> MergeTexts] : toMerge = mergeInput(speakers, texts)
    /\ merged = <<>> /\ remerged = <<>>
    /\ IdleAlign /\ IdleCodec /\ IdleReshape /\ IdleScore /\ IdleMatch /\ IdleHeap /\ IdleApp

Merge ==
    /\ mergePc = "merge"
    /\ merged' = filterSpeakerChanges(toMerge)
    /\ mergePc' = "remerge"
    /\ UNCHANGED <<toMerge, remerged>>
    /\ UNCHANGED <<alignVars, codecVars, reshapeVars, scoreVars, matchVars, heapVars, appVars>>

Remerge ==
    /\ mergePc = "remerge"
    /\ remerged' = filterSpeakerChanges(merged)
    /\ mergePc' = "done"
    /\ UNCHANGED <<toMerge, merged>>
    /\ UNCHANGED <<alignVars, codecVars, reshapeVars, scoreVars, matchVars, heapVars, appVars>>

NextMerge == Merge \/ Remerge

SpecMerge == InitMerge /\ [][NextMerge]_vars


(***************************************************************************)
(* TextAligner.findBestMatch, one loop iteration at a time                 *)
(***************************************************************************)
\* what one pass through the inner loop body computes for the span [a, b]
candidate(pdfWords, subs, a, b) ==
    LET srtWords  == Words(rangeText(subs, a, b))
        rawScore  == calculateSimilarity(pdfWords, srtWords)
        rangeSize == b - a + 1
    IN  [startIndex |-> a, endIndex |-> b,
         startMs |-> subs[a + 1].startMs, endMs |-> subs[b + 1].endMs,
         confidence |-> rawScore, rangeSize |-> rangeSize,
         score |-> penalized(rawScore, rangeSize)]

\* the fields of bestMatch
matchOf(c) ==
    [startIndex |-> c.startIndex, endIndex |-> c.endIndex, startMs |-> c.startMs,
     endMs |-> c.endMs, confidence |-> c.confidence, rangeSize |-> c.rangeSize]

stopsScanNever(score, rangeSize) == FALSE

\* if (score > 0.75 && rangeSize <= 20) break;
stopsScan(score, rangeSize) == Greater(score, HIGH_SCORE) /\ rangeSize <= earlyStopSize

\* the test of the outer for loop
OuterTest ==
    /\ scanPc = "outer"
    /\ LET windowSize == Min(maxWindow, Len(entries) - searchFrom)
       IN  IF scanI < Min(searchFrom + windowSize, Len(entries))
           THEN scanPc' = "inner" /\ scanJ' = scanI
           ELSE scanPc' = "return" /\ scanJ' = scanJ
    /\ UNCHANGED <<targetWords, entries, searchFrom, scanI, bestMatch, bestScore, scanned,
                   scanResult>>
    /\ UNCHANGED <<alignVars, codecVars, reshapeVars, mergeVars, scoreVars, heapVars, appVars>>

\* one iteration of the inner for loop
InnerIterate ==
    /\ scanPc = "inner"
    /\ scanJ < Min(scanI + maxRangeSize, Len(entries))
    /\ LET c == candidate(targetWords, entries, scanI, scanJ)
       IN  /\ IF Greater(c.score, bestScore)
              THEN bestScore' = c.score /\ bestMatch' = matchOf(c)
              ELSE UNCHANGED <<bestScore, bestMatch>>
           /\ scanned' = Append(scanned, [startIndex |-> scanI, endIndex |-> scanJ,
                                          confidence |-> c.confidence])
           /\ IF stopsScan(c.score, c.rangeSize)
              THEN scanPc' = "afterInner" /\ scanJ' = scanJ
              ELSE scanPc' = "inner" /\ scanJ' = scanJ + 1
    /\ UNCHANGED <<targetWords, entries, searchFrom, scanI, scanResult>>
    /\ UNCHANGED <<alignVars, codecVars, reshapeVars, mergeVars, scoreVars, heapVars, appVars>>

\* the inner loop's test fails
InnerExit ==
    /\ scanPc = "inner"
    /\ scanJ >= Min(scanI + maxRangeSize, Len(entries))
    /\ scanPc' = "afterInner"
    /\ UNCHANGED <<targetWords, entries, searchFrom, scanI, scanJ, bestMatch, bestScore,
                   scanned, scanResult>>
    /\ UNCHANGED <<alignVars, codecVars, reshapeVars, mergeVars, scoreVars, heapVars, appVars>>

\* if (bestScore > 0.75) break;  else i++
OuterStep ==
    /\ scanPc = "afterInner"
    /\ IF Greater(bestScore, HIGH_SCORE)
       THEN scanPc' = "return" /\ scanI' = scanI
       ELSE scanPc' = "outer" /\ scanI' = scanI + 1
    /\ UNCHANGED <<targetWords, entries, searchFrom, scanJ, bestMatch, bestScore, scanned,
                   scanResult>>
    /\ UNCHANGED <<alignVars, codecVars, reshapeVars, mergeVars, scoreVars, heapVars, appVars>>

ReturnMatch ==
    /\ scanPc = "return"
    /\ scanResult' = IF bestMatch # NoMatch /\ AtLeast(bestMatch.confidence, FIND_MIN_CONFIDENCE)
                     THEN bestMatch ELSE NoMatch
    /\ scanPc' = "done"
    /\ UNCHANGED <<targetWords, entries, searchFrom, scanI, scanJ, bestMatch, bestScore,
                   scanned>>
    /\ UNCHANGED <<alignVars, codecVars, reshapeVars, mergeVars, scoreVars, heapVars, appVars>>

(***************************************************************************)
(* Inputs of a findBestMatch run: one-letter captions                      *)
(***************************************************************************)
MaxScan == 32

ScanLetters == "abcdefghijklmnopqrstuvwxyz"

letterAt(k) == CharAt(ScanLetters, (k % 26) + 1)

\* the letters k, k + 1, ... (n of them) separated by spaces
RECURSIVE spelled(_, _)
spelled(k, n) ==
    IF n = 0 THEN "" ELSE IF n = 1 THEN letterAt(k) ELSE letterAt(k) \o " " \o spelled(k + 1, n - 1)

captions(texts) ==
    [k \in 1..Len(texts) |->
        [startMs |-> 2000 * (k - 1), endMs |-> 2000 * (k - 1) + 2000, text |-> texts[k]]]

\* caption k says the letter k
letterScript(n) == captions([k \in 1..n |-> letterAt(k - 1)])

\* eight letters of the alphabet, out of order, among eight captions of digits
SparseScript ==
    captions(<<"x", "1", "2", "3", "w", "u", "t", "q", "n", "4", "5", "6", "7", "m", "e", "8">>)

ScanTargets == {"a b", "c d e", "b a", "0 1", "...", spelled(0, 17), spelled(0, 22), spelled(3, 26)}

ScanLengths == {0, 1, 18, MaxScan}

StartOfScan ==
    /\ scanPc = "outer" /\ scanI = searchFrom /\ scanJ = 0
    /\ bestMatch = NoMatch /\ bestScore = [n |-> 0, d |-> 1]
    /\ scanned = <<>> /\ scanResult = NoMatch
    /\ IdleAlign /\ IdleCodec /\ IdleReshape /\ IdleMerge /\ IdleScore /\ IdleHeap /\ IdleApp

InitLetters ==
    /\ \E n \in ScanLengths : entries = letterScript(n)
    /\ \E text \in ScanTargets : targetWords = Words(text)
    /\ searchFrom \in {0, 3}
    /\ StartOfScan

InitSparse ==
    /\ entries = SparseScript
    /\ targetWords = Words(spelled(0, 26))
    /\ searchFrom = 0
    /\ StartOfScan

InitMatch == InitLetters \/ InitSparse

NextMatch == OuterTest \/ InnerIterate \/ InnerExit \/ OuterStep \/ ReturnMatch

SpecMatch == InitMatch /\ [][NextMatch]_vars


(***************************************************************************)
(* A scoring run: calculateSimilarity on two word arrays                   *)
(***************************************************************************)
MaxWords == 3

\* the words "a" and "b", and the empty token ''.split(/\s+/) produces
ScoreTokens == {<<"a">>, <<"b">>, <<>>}

WordArrays == UNION {[1..n -> ScoreTokens] : n \in 1..MaxWords}

InitScore ==
    /\ scorePc = "score"
    /\ tokens1 \in WordArrays
    /\ tokens2 \in WordArrays
    /\ similarity = [n |-> 0, d |-> 1]
    /\ IdleAlign /\ IdleCodec /\ IdleReshape /\ IdleMerge /\ IdleMatch /\ IdleHeap /\ IdleApp

Score ==
    /\ scorePc = "score"
    /\ similarity' = calculateSimilarity(tokens1, tokens2)
    /\ scorePc' = "done"
    /\ UNCHANGED <<tokens1, tokens2>>
    /\ UNCHANGED <<alignVars, codecVars, reshapeVars, mergeVars, matchVars, heapVars, appVars>>

NextScore == Score

SpecScore == InitScore /\ [][NextScore]_vars


(***************************************************************************)
(* SRTParser.generate and formatSpeakerLabel                               *)
(***************************************************************************)
LetterSet == UpperSet \cup {CharAt(LowerChars, k) : k \in 1..26}

\* the first position >= k of str that is not whitespace; Len(str) + 1 if none
SkipSpaces(str, k) ==
    LET inked == {j \in k..Len(str) : ~IsSpace(CharAt(str, j))}
    IN  IF inked = {} THEN Len(str) + 1 ELSE SetMin(inked)

\* text.replace(new RegExp(`^${speaker}\\s*:\\s*`, 'i'), '') for a speaker
\* name without regular expression metacharacters
stripSpeaker(speaker, text) ==
    LET n == Len(speaker)
        colon == SkipSpaces(text, n + 1)
    IN  IF /\ Len(text) >= n
           /\ ToLowerCase(Chars(SubSeq(text, 1, n))) = ToLowerCase(Chars(speaker))
           /\ colon <= Len(text)
           /\ CharAt(text, colon) = ":"
        THEN SubSeq(text, SkipSpaces(text, colon + 1), Len(text))
        ELSE text

\* text.replace(/^[A-Z][A-Za-z\s\.]*?\s*:\s*/, '')
stripAnyLabel(text) ==
    LET colons == {k \in 2..Len(text) : CharAt(text, k) = ":"}
        colon  == SetMin(colons)
    IN  IF /\ Len(text) >= 1
           /\ CharAt(text, 1) \in UpperSet
           /\ colons # {}
           /\ \A k \in 2..(colon - 1) :
                  CharAt(text, k) \in LetterSet \cup WhitespaceChars \cup {"."}
        THEN SubSeq(text, SkipSpaces(text, colon + 1), Len(text))
        ELSE text

formatSpeakerLabel(speaker, text) ==
    LET ownLabelGone == TrimString(stripSpeaker(speaker, text))
        anyLabelGone == TrimString(stripAnyLabel(ownLabelGone))
    IN  speaker \o ":\n" \o anyLabelGone

\* the forEach of generate, from segment k on
RECURSIVE srtBlocks(_, _)
srtBlocks(segs, k) ==
    IF k > Len(segs) THEN ""
    ELSE NatToString(k) \o "\n"
            \o segs[k].startTime \o " --> " \o segs[k].endTime \o "\n"
            \o formatSpeakerLabel(segs[k].speaker, segs[k].text) \o "\n\n"
            \o srtBlocks(segs, k + 1)

generate(segs) == TrimString(srtBlocks(segs, 1))

(***************************************************************************)
(* TranscriptSynchronizer (app.js): file selection and process()           *)
(*                                                                         *)
(* process() is an async function: it gives up control at its two awaits   *)
(* (pdfParser.extractText, srtParser.parse); between them other events -   *)
(* a file selection, another click on Process - can run.  From the         *)
(* resolution of the second await to its end it runs without interruption, *)
(* align() included.  The page itself (index.html) is not part of the      *)
(* sources; the Process button starts disabled and all three sections      *)
(* start hidden.                                                           *)
(***************************************************************************)
MaxRuns == 2

COULD_NOT_ALIGN ==
    "Could not align the texts. Please ensure the PDF and SRT files are from the same interview."

\* what extractText can resolve to
PdfResults ==
    {[success |-> FALSE, error |-> "Invalid PDF structure", segments |-> <<>>]}
        \cup {[success |-> TRUE, error |-> "", segments |-> segs] :
                 segs \in {<<>>, <<EchoTurn>>, <<EchoTurn, AlienTurn>>}}

\* what srtParser.parse can resolve to
SrtResults ==
    {[success |-> FALSE, error |-> "file could not be read", subtitles |-> <<>>]}
        \cup {[success |-> TRUE, error |-> "", subtitles |-> timedScript(n, "contiguous")] :
                 n \in {0, 2, END_MARGIN + 1}}

\* no align() call is on the stack
Interruptible == pc = "idle"

\* the catch block: hideProgress(); showError(error.message)
Catch(message) ==
    /\ progressHidden' = TRUE
    /\ processBtnDisabled' = FALSE
    /\ errorHidden' = FALSE
    /\ errorText' = message
    /\ UNCHANGED <<resultHidden, resultSRT>>

\* align() is off the stack again
AlignPopped ==
    /\ pc' = "idle" /\ pdfSegments' = <<>> /\ srtSubtitles' = <<>>
    /\ startIndex' = 0 /\ i' = 0 /\ srtIndex' = 0 /\ match' = NoMatch
    /\ anchors' = <<>> /\ result' = <<>> /\ spans' = <<>>

HandleFileSelected ==
    /\ Interruptible
    /\ \E kind \in {"pdf", "srt"} : \E allowed \in BOOLEAN :
          IF ~allowed
          THEN /\ errorHidden' = FALSE
               /\ errorText' = (IF kind = "pdf" THEN "Please select a .pdf or .txt file"
                                ELSE "Please select a .srt file")
               /\ UNCHANGED <<pdfFile, srtFile, processBtnDisabled, resultHidden>>
          ELSE /\ pdfFile' = (pdfFile \/ kind = "pdf")
               /\ srtFile' = (srtFile \/ kind = "srt")
               /\ processBtnDisabled' = (IF pdfFile' /\ srtFile' THEN FALSE
                                         ELSE processBtnDisabled)
               /\ resultHidden' = TRUE
               /\ errorHidden' = TRUE
               /\ UNCHANGED errorText
    /\ UNCHANGED <<appPc, runs, pdfResult, progressHidden, resultSRT, outcome>>
    /\ UNCHANGED <<alignVars, codecVars, reshapeVars, unitVars>>

\* a click on the enabled Process button: process() up to its first await
ClickProcess ==
    /\ Interruptible
    /\ ~processBtnDisabled
    /\ runs < MaxRuns
    /\ runs' = runs + 1
    /\ processBtnDisabled' = TRUE
    /\ progressHidden' = FALSE
    /\ errorHidden' = TRUE
    /\ resultHidden' = TRUE
    /\ appPc' = Append(appPc, "extract")
    /\ pdfResult' = Append(pdfResult, NoMatch)
    /\ outcome' = Append(outcome, [srtBefore |-> resultSRT, ended |-> "running", aligned |-> -1])
    /\ UNCHANGED <<pdfFile, srtFile, errorText, resultSRT>>
    /\ UNCHANGED <<alignVars, codecVars, reshapeVars, unitVars>>

\* the first await resolves: process() up to its second await, or to its end
ExtractResolves ==
    /\ Interruptible
    /\ \E r \in 1..runs : \E res \in PdfResults :
          /\ appPc[r] = "extract"
          /\ pdfResult' = [pdfResult EXCEPT ![r] = res]
          /\ IF ~res.success
             THEN /\ Catch("Transcript parsing failed: " \o res.error)
                  /\ appPc' = [appPc EXCEPT ![r] = "ended"]
                  /\ outcome' = [outcome EXCEPT ![r].ended = "failed"]
             ELSE /\ appPc' = [appPc EXCEPT ![r] = "parse"]
                  /\ UNCHANGED <<progressHidden, processBtnDisabled, errorHidden, errorText,
                                 resultHidden, resultSRT, outcome>>
    /\ UNCHANGED <<runs, pdfFile, srtFile>>
    /\ UNCHANGED <<alignVars, codecVars, reshapeVars, unitVars>>

\* the second await resolves: process() up to the call of align(), or to its end
ParseResolves ==
    /\ Interruptible
    /\ \E r \in 1..runs : \E res \in SrtResults :
          /\ appPc[r] = "parse"
          /\ IF ~res.success
             THEN /\ Catch("SRT parsing failed: " \o res.error)
                  /\ appPc' = [appPc EXCEPT ![r] = "ended"]
                  /\ outcome' = [outcome EXCEPT ![r].ended = "failed"]
                  /\ UNCHANGED alignVars
             ELSE /\ appPc' = [appPc EXCEPT ![r] = "align"]
                  /\ pdfSegments' = pdfResult[r].segments
                  /\ srtSubtitles' = res.subtitles
                  /\ pc' = "findStart"
                  /\ UNCHANGED <<startIndex, i, srtIndex, match, anchors, result, spans>>
                  /\ UNCHANGED <<progressHidden, processBtnDisabled, errorHidden, errorText,
                                 resultHidden, resultSRT, outcome>>
    /\ UNCHANGED <<runs, pdfFile, srtFile, pdfResult>>
    /\ UNCHANGED <<codecVars, reshapeVars, unitVars>>

\* align() returned: the rest of process()
AlignReturns ==
    /\ pc = "returned"
    /\ \E r \in 1..runs :
          /\ appPc[r] = "align"
          /\ appPc' = [appPc EXCEPT ![r] = "ended"]
          /\ IF Len(result) = 0
             THEN /\ Catch(COULD_NOT_ALIGN)
                  /\ outcome' = [outcome EXCEPT ![r].ended = "failed", ![r].aligned = 0]
             ELSE /\ resultSRT' = generate(processSegments(result))
                  /\ progressHidden' = TRUE
                  /\ processBtnDisabled' = FALSE
                  /\ resultHidden' = FALSE
                  /\ outcome' = [outcome EXCEPT ![r].ended = "shown", ![r].aligned = Len(result)]
                  /\ UNCHANGED <<errorHidden, errorText>>
    /\ AlignPopped
    /\ UNCHANGED <<runs, pdfFile, srtFile, pdfResult>>
    /\ UNCHANGED <<codecVars, reshapeVars, unitVars>>

\* align() threw (no timed entry to read endMs from): the catch block
AlignThrows ==
    /\ pc = "threw"
    /\ \E r \in 1..runs :
          /\ appPc[r] = "align"
          /\ appPc' = [appPc EXCEPT ![r] = "ended"]
          /\ outcome' = [outcome EXCEPT ![r].ended = "failed"]
    /\ Catch("Cannot read properties of undefined (reading 'endMs')")
    /\ AlignPopped
    /\ UNCHANGED <<runs, pdfFile, srtFile, pdfResult>>
    /\ UNCHANGED <<codecVars, reshapeVars, unitVars>>

InitApp ==
    /\ IdleApp
    /\ IdleAlign /\ IdleCodec /\ IdleReshape /\ IdleUnits

NextApp ==
    \/ HandleFileSelected \/ ClickProcess \/ ExtractResolves \/ ParseResolves
    \/ FindStart \/ Pass1Iterate \/ Pass1Exit \/ Pass2Iterate \/ Return
    \/ AlignReturns \/ AlignThrows

SpecApp == InitApp /\ [][NextApp]_vars


(***************************************************************************)
(* Time codec runs on input outside the timestamp format                   *)
(***************************************************************************)
\* negative millisecond values
NegativeMs == {-t : t \in MsSamples \ {0}}

\* strings that are not of the form HH:MM:SS,mmm
MalformedTimes ==
    {"1:2:3,4", "00:00:00", "aa:bb:cc,ddd", "::,", "", "00:00:-1,000", "00:61,000", "12,5"}

InitCodecEdge ==
    /\ \/ cpc = "format" /\ ms \in NegativeMs /\ timeStr = ""
       \/ cpc = "parse" /\ ms = 0 /\ timeStr \in MalformedTimes
    /\ parsed = NaN
    /\ IdleAlign /\ IdleReshape /\ IdleUnits /\ IdleApp

SpecCodecEdge == InitCodecEdge /\ [][NextCodec]_vars


(***************************************************************************)
(* The reshaper on segment objects                                         *)
(*                                                                         *)
(* In the JavaScript a segment is an object and an array holds references  *)
(* to objects: `result.push(segment)` shares the object, `{ ...segment }`   *)
(* makes a new one, and `currentSegment.text += ...` writes to whichever   *)
(* object currentSegment refers to.  Here the objects are the elements of  *)
(* a sequence, a reference is a position in it, and 0 is null.             *)
(***************************************************************************)
\* variant: currentSegment = segment, the running segment is the input object
filterStepRefsShared(run, ref) ==
    IF run.currentSegment = 0 \/ run.heap[run.currentSegment].speaker # run.heap[ref].speaker
    THEN [heap |-> run.heap,
          result |-> IF run.currentSegment # 0
                     THEN Append(run.result, run.currentSegment) ELSE run.result,
          currentSegment |-> ref]
    ELSE [heap |-> [run.heap EXCEPT ![run.currentSegment] =
                       [@ EXCEPT !.text = @ \o " " \o run.heap[ref].text,
                                 !.endTime = run.heap[ref].endTime,
                                 !.endMs = run.heap[ref].endMs]],
          result |-> run.result,
          currentSegment |-> run.currentSegment]

\* one iteration of the loop of filterSpeakerChanges; run = [heap, result,
\* currentSegment]; `{ ...segment }` is a new object at the end of the heap
filterStepRefs(run, ref) ==
    IF run.currentSegment = 0 \/ run.heap[run.currentSegment].speaker # run.heap[ref].speaker
    THEN [heap |-> Append(run.heap, run.heap[ref]),
          result |-> IF run.currentSegment # 0
                     THEN Append(run.result, run.currentSegment) ELSE run.result,
          currentSegment |-> Len(run.heap) + 1]
    ELSE [heap |-> [run.heap EXCEPT ![run.currentSegment] =
                       [@ EXCEPT !.text = @ \o " " \o run.heap[ref].text,
                                 !.endTime = run.heap[ref].endTime,
                                 !.endMs = run.heap[ref].endMs]],
          result |-> run.result,
          currentSegment |-> run.currentSegment]

RECURSIVE filterFromRefs(_, _, _)
filterFromRefs(refs, k, run) ==
    IF k > Len(refs) THEN run ELSE filterFromRefs(refs, k + 1, filterStepRefs(run, refs[k]))

\* filterSpeakerChanges(segments): the heap after the call and the array returned
filterSpeakerChangesRefs(objects, refs) ==
    LET run == filterFromRefs(refs, 1, [heap |-> objects, result |-> <<>>, currentSegment |-> 0])
    IN  [heap |-> run.heap,
         result |-> IF run.currentSegment # 0 THEN Append(run.result, run.currentSegment)
                    ELSE run.result]

\* the loop of splitLongSegments from position k on; run = [heap, result]
RECURSIVE splitFromRefs(_, _, _)
splitFromRefs(refs, k, run) ==
    IF k > Len(refs) THEN run
    ELSE LET segment == run.heap[refs[k]]
         IN  IF segment.endMs - segment.startMs <= maxDuration
             THEN splitFromRefs(refs, k + 1,
                                [heap |-> run.heap, result |-> Append(run.result, refs[k])])
             ELSE LET chunks == splitTextIntoChunks(segment.text)
                      made   == [c \in 1..Len(chunks) |-> chunkSegment(segment, chunks, c - 1)]
                  IN  splitFromRefs(refs, k + 1,
                                    [heap |-> run.heap \o made,
                                     result |-> run.result
                                                   \o [c \in 1..Len(chunks) |-> Len(run.heap) + c]])

\* splitLongSegments(segments): the heap after the call and the array returned
splitLongSegmentsRefs(objects, refs) ==
    splitFromRefs(refs, 1, [heap |-> objects, result |-> <<>>])

\* processSegments(segments)
processSegmentsRefs(objects, refs) == splitLongSegmentsRefs(objects, refs)

\* the objects an array of references refers to
deref(objects, refs) == [k \in 1..Len(refs) |-> objects[refs[k]]]

(***************************************************************************)
(* A run on objects: filterSpeakerChanges, splitLongSegments and           *)
(* processSegments, each called with the same array of segments            *)
(***************************************************************************)
MaxObjects == 3

TwoLongSentences == LongSentence \o " " \o LongSentence

ObjectShapes ==
    {[text |-> "Yes.", duration |-> 60000],
     [text |-> TwoLongSentences, duration |-> 60000],
     [text |-> TwoLongSentences, duration |-> 130000]}

\* the end of the k-th of a sequence of segments that follow one another from 0
RECURSIVE endOfShapes(_, _)
endOfShapes(shapes, k) == IF k = 0 THEN 0 ELSE endOfShapes(shapes, k - 1) + shapes[k].duration

objectsOf(speakers, shapes) ==
    [k \in 1..Len(shapes) |->
        [speaker |-> speakers[k], text |-> shapes[k].text,
         startTime |-> msToTime(endOfShapes(shapes, k - 1)),
         endTime |-> msToTime(endOfShapes(shapes, k)),
         startMs |-> endOfShapes(shapes, k - 1), endMs |-> endOfShapes(shapes, k)]]

InitObjects ==
    /\ heapPc = "filter"
    /\ \E n \in 1..MaxObjects : \E speakers \in [1..n -> {"A", "B"}] :
          \E shapes \in [1..n -> ObjectShapes] : heap = objectsOf(speakers, shapes)
    /\ heapBefore = heap
    /\ argRefs = [k \in 1..Len(heap) |-> k]
    /\ outRefs = <<>>
    /\ IdleAlign /\ IdleCodec /\ IdleReshape /\ IdleMerge /\ IdleScore /\ IdleMatch /\ IdleApp

FilterObjects ==
    /\ heapPc = "filter"
    /\ LET done == filterSpeakerChangesRefs(heap, argRefs)
       IN  heap' = done.heap /\ outRefs' = done.result
    /\ heapBefore' = heap
    /\ heapPc' = "split"
    /\ UNCHANGED argRefs
    /\ UNCHANGED <<alignVars, codecVars, reshapeVars, mergeVars, scoreVars, matchVars, appVars>>

SplitObjects ==
    /\ heapPc = "split"
    /\ LET done == splitLongSegmentsRefs(heap, argRefs)
       IN  heap' = done.heap /\ outRefs' = done.result
    /\ heapBefore' = heap
    /\ heapPc' = "process"
    /\ UNCHANGED argRefs
    /\ UNCHANGED <<alignVars, codecVars, reshapeVars, mergeVars, scoreVars, matchVars, appVars>>

ProcessObjects ==
    /\ heapPc = "process"
    /\ LET done == processSegmentsRefs(heap, argRefs)
       IN  heap' = done.heap /\ outRefs' = done.result
    /\ heapBefore' = heap
    /\ heapPc' = "done"
    /\ UNCHANGED argRefs
    /\ UNCHANGED <<alignVars, codecVars, reshapeVars, mergeVars, scoreVars, matchVars, appVars>>

NextObjects == FilterObjects \/ SplitObjects \/ ProcessObjects

SpecObjects == InitObjects /\ [][NextObjects]_vars


(***************************************************************************)
(* Properties of align()                                                   *)
(***************************************************************************)
Returned == pc = "returned"

\* C1: for non-empty reference turns and non-empty timed entries align()
\* returns (it does not throw) exactly N - startIndex segments, one per turn
\* from the start index on, whatever anchors pass 1 found; it returns an empty
\* list only when there are no reference turns.
C1_Coverage ==
    /\ pc = "threw" => Len(srtSubtitles) = 0
    /\ (Returned /\ Len(pdfSegments) >= 1) =>
          /\ Len(result) = Len(pdfSegments) - startIndex
          /\ Len(result) >= 1
    /\ (Returned /\ result = <<>>) => Len(pdfSegments) = 0

\* a run that skipped front matter, anchored one turn and interpolated another
C1_Witness ==
    /\ Returned /\ Len(pdfSegments) = 3 /\ startIndex = 1
    /\ Len(anchors) = 1 /\ Len(result) = 2

\* C2: the speakers and texts of the returned segments are those of the
\* reference turns from the start index on, in the same order, whether a turn
\* was anchored or interpolated.
C2_OrderPreserved ==
    Returned =>
        /\ Len(result) = Len(pdfSegments) - startIndex
        /\ \A k \in 1..Len(result) :
              /\ result[k].speaker = pdfSegments[startIndex + k].speaker
              /\ result[k].text = pdfSegments[startIndex + k].text

\* an interpolated turn of one speaker followed by an anchored turn of another
C2_Witness ==
    /\ Returned /\ Len(result) >= 2
    /\ Len(anchors) = 1 /\ anchors[1].pdfIndex = startIndex + 1
    /\ result[1].speaker # result[2].speaker

\* C3: from one pass 1 iteration to the next the cursor never decreases: it
\* becomes the matched span's end index + 1 after an anchor and advances by
\* exactly one after a failed search.
C3_CursorMonotone ==
    [][(pc = "pass1" /\ pc' = "pass1") =>
          /\ srtIndex' >= srtIndex
          /\ anchorsTurn(match') => srtIndex' = match'.endIndex + 1
          /\ ~anchorsTurn(match') => srtIndex' = srtIndex + 1]_vars

\* pass 1 has run a failed search and then placed an anchor
C3_Witness ==
    /\ pc = "pass1" /\ i = startIndex + 2
    /\ Len(anchors) = 1 /\ anchors[1].pdfIndex = startIndex + 1
    /\ srtIndex >= 2

\* C6: a turn whose tokens are the concatenated tokens of the timed entries
\* 0..j is anchored and returned with entry 0's startMs and entry j's endMs,
\* for any length of the timed sequence; so the exact echo of two entries
\* 0-2000 and 2000-4000 comes back as one segment 0-4000.
C6_ExactEcho ==
    (Returned /\ startIndex < Len(pdfSegments)) =>
        \A j \in 0..(Len(srtSubtitles) - 1) :
            Words(pdfSegments[startIndex + 1].text) = Words(rangeText(srtSubtitles, 0, j)) =>
                /\ result[1].startMs = srtSubtitles[1].startMs
                /\ result[1].endMs = srtSubtitles[j + 1].endMs

\* C9: findTranscriptStart returns the smallest index among the first
\* min(20, N) turns whose turn has at least 5 tokens and whose best match from
\* timed index 0 has confidence >= 0.4, and 0 when there is none; a turn of
\* fewer than 5 tokens is never selected by a match; so a short header turn
\* followed by a matching body turn yields one segment, the body turn's.
startQualifies(k) ==
    LET pdfWords == Words(pdfSegments[k + 1].text)
    IN  /\ Len(pdfWords) >= 5
        /\ LET m == findBestMatch(pdfWords, srtSubtitles, 0)
           IN  m # NoMatch /\ AtLeast(m.confidence, [n |-> 2, d |-> 5])

C9_FrontMatter ==
    /\ (pc = "pass1" /\ i = startIndex) =>
          LET probed == 0..(Min(20, Len(pdfSegments)) - 1)
              Q == {k \in probed : startQualifies(k)}
          IN  /\ Q = {} => startIndex = 0
              /\ Q # {} => startIndex \in Q /\ \A k \in Q : startIndex <= k
              /\ startIndex > 0 => Len(Words(pdfSegments[startIndex + 1].text)) >= 5
    /\ (Returned /\ Len(pdfSegments) = 2 /\ Len(Words(pdfSegments[1].text)) < 5
           /\ startQualifies(1)) =>
          /\ Len(result) = 1
          /\ result[1].speaker = pdfSegments[2].speaker

\* the front-matter scenario: header turn, then the echo of the two timed entries
C9_Witness ==
    /\ Returned /\ pdfSegments = <<HeaderTurn, EchoTurn>>
    /\ srtSubtitles = timedScript(2, "contiguous")
    /\ startIndex = 1 /\ Len(result) = 1 /\ result[1].speaker = "A"

\* C10: when no word of any reference turn occurs in any timed entry (both
\* inputs non-empty) align() creates no anchor, does not throw, and returns one
\* segment per turn from index 0, the k-th at round(k * total / N) with
\* duration round(min(3000, 0.8 * total / N)).
Vocabulary(text) == SetOf(Words(text)) \ {<<>>}

DisjointVocabularies ==
    \A t \in 1..Len(pdfSegments) : \A e \in 1..Len(srtSubtitles) :
        Vocabulary(pdfSegments[t].text) \cap Vocabulary(srtSubtitles[e].text) = {}

EvenlySpaced ==
    LET N == Len(pdfSegments)
        total == srtSubtitles[Len(srtSubtitles)].endMs
    IN  /\ Len(result) = N
        /\ \A k \in 0..(N - 1) :
              /\ result[k + 1].startMs = Round(k * total, N)
              /\ result[k + 1].endMs - result[k + 1].startMs =
                    IF 4 * total < 5 * N * 3000 THEN Round(4 * total, 5 * N) ELSE 3000

C10_NoAnchors ==
    (pc \in {"returned", "threw"} /\ Len(pdfSegments) >= 1 /\ Len(srtSubtitles) >= 1
        /\ DisjointVocabularies) =>
        /\ pc = "returned"
        /\ anchors = <<>>
        /\ startIndex = 0
        /\ EvenlySpaced

\* C19: pass 1 stops once the cursor is within 5 entries of the end of the
\* timed sequence: from such a cursor no window search is made, the cursor
\* stays and no anchor is added; 5 or fewer timed entries give no anchor.
C19_StopsNearEnd ==
    [][/\ (srtIndex >= Len(srtSubtitles) - 5) =>
             (anchors' = anchors /\ match' = match /\ srtIndex' = srtIndex)
       /\ (Len(srtSubtitles') <= 5) => (anchors' = <<>>)]_vars

\* pass 1 anchored one turn, stopped at the margin, and left a later turn,
\* which repeats the anchored turn's words, without an anchor
C19_Witness ==
    /\ Returned
    /\ Len(srtSubtitles) > 5
    /\ srtIndex >= Len(srtSubtitles) - 5
    /\ Len(anchors) = 1
    /\ \E k \in (anchors[1].pdfIndex + 2)..Len(pdfSegments) :
          pdfSegments[k].text = pdfSegments[anchors[1].pdfIndex + 1].text

\* the data-model invariant of the timed entries: 0 <= startMs <= endMs for
\* each entry, startMs non-decreasing along the sequence
WellFormedEntries(subs) ==
    /\ \A k \in 1..Len(subs) : 0 <= subs[k].startMs /\ subs[k].startMs <= subs[k].endMs
    /\ \A k \in 1..(Len(subs) - 1) : subs[k].startMs <= subs[k + 1].startMs

\* C20: for timed entries that satisfy the data-model invariant every
\* segment align() returns, anchored or interpolated, has startMs <= endMs.
C20_StartBeforeEnd ==
    (Returned /\ WellFormedEntries(srtSubtitles)) =>
        \A k \in 1..Len(result) : result[k].startMs <= result[k].endMs

(***************************************************************************)
(* Properties of the time codec                                            *)
(***************************************************************************)
\* C5: round trip: timeToMs(msToTime(ms)) = ms for every non-negative integer ms.
C5_RoundTrip == cpc = "done" => parsed = Num(ms)

\* a value of 100 hours or more, whose hour field takes three digits
C5_Witness ==
    /\ cpc = "done" /\ ms >= 360000000 /\ ms % 1000 = 7
    /\ Len(timeStr) = 13 /\ parsed = Num(ms)

\* str is two or more digits, ':', two digits, ':', two digits, ',', three digits
WellFormedTime(str) ==
    LET parts == SplitChar(str, ",")
        hms   == SplitChar(parts[1], ":")
    IN  /\ Len(parts) = 2 /\ Len(hms) = 3
        /\ Len(hms[1]) >= 2 /\ IsDigits(hms[1])
        /\ Len(hms[2]) = 2 /\ IsDigits(hms[2])
        /\ Len(hms[3]) = 2 /\ IsDigits(hms[3])
        /\ Len(parts[2]) = 3 /\ IsDigits(parts[2])

\* C16: the time codec rejects bad input: msToTime of a negative ms and
\* timeToMs of a string that is not HH:MM:SS,mmm end in a FormatError, they
\* do not return a value.
C16_RejectsBadInput ==
    /\ ms < 0 => cpc \in {"format", "FormatError"}
    /\ ~WellFormedTime(timeStr) => cpc \in {"format", "parse", "FormatError"}

(***************************************************************************)
(* Properties of the segment reshaper                                      *)
(***************************************************************************)
Reshaped == rpc = "done"

durationOf(seg) == seg.endMs - seg.startMs

\* C4: after the reshaper has run no emitted segment lasts more than 120000 ms.
C4_DurationCap ==
    Reshaped => \A k \in 1..Len(processed) : durationOf(processed[k]) <= 120000

\* C7: a segment longer than 120000 ms whose text has several sentences comes
\* out as at least 2 segments, however short the sentences are: the output has
\* at least one segment more than the input for each such segment.
severalSentences(text) == Len(matchSentences(text, 1)) >= 2

C7_SplitsLong ==
    Reshaped =>
        Len(processed) >= Len(segments) +
            Cardinality({k \in 1..Len(segments) :
                            durationOf(segments[k]) > 120000 /\ severalSentences(segments[k].text)})

\* C8: the chunks of a split segment cover the original span: the first starts
\* at the original startMs, the last ends at the original endMs, each ends
\* where the next starts, each has startMs <= endMs and the original speaker.
emitted(seg) ==
    IF durationOf(seg) <= 120000 THEN 1 ELSE Len(splitTextIntoChunks(seg.text))

RECURSIVE emittedBefore(_)
emittedBefore(k) == IF k = 1 THEN 0 ELSE emittedBefore(k - 1) + emitted(segments[k - 1])

C8_SpanPreserved ==
    Reshaped =>
        \A k \in 1..Len(segments) :
            durationOf(segments[k]) > 120000 =>
                LET first == emittedBefore(k) + 1
                    last  == emittedBefore(k) + emitted(segments[k])
                IN  /\ last <= Len(processed)
                    /\ processed[first].startMs = segments[k].startMs
                    /\ processed[last].endMs = segments[k].endMs
                    /\ \A c \in first..(last - 1) : processed[c].endMs = processed[c + 1].startMs
                    /\ \A c \in first..last :
                          /\ processed[c].startMs <= processed[c].endMs
                          /\ processed[c].speaker = segments[k].speaker

\* a segment of odd duration split into three chunks
C8_Witness ==
    /\ Reshaped /\ Len(segments) = 1 /\ durationOf(segments[1]) = 300001
    /\ Len(processed) = 3
    /\ processed[1].endMs = processed[2].startMs
    /\ processed[3].endMs = segments[1].endMs

(***************************************************************************)
(* Properties of filterSpeakerChanges                                      *)
(***************************************************************************)
\* C11: merging by speaker is idempotent: merging the merged sequence again
\* gives the same segments (speaker, text, startMs, endMs, and the time
\* strings) in the same order.
C11_MergeIdempotent == mergePc = "done" => remerged = merged

\* a run in which the first merge joined three or more segments into one and
\* still left several segments
C11_Witness ==
    /\ mergePc = "done"
    /\ Len(merged) >= 2
    /\ Len(toMerge) >= Len(merged) + 2
    /\ \E k \in 1..(Len(toMerge) - 2) :
          toMerge[k].speaker = toMerge[k + 1].speaker /\ toMerge[k + 1].speaker = toMerge[k + 2].speaker

\* C12: processSegments merges consecutive segments of the same speaker
\* before it splits: what it returns is the split of the speaker-merged
\* input, so that apart from the chunks of an overlong turn a new segment
\* begins only where the speaker changes.
C12_MergesBeforeSplit ==
    Reshaped => processed = splitLongSegments(filterSpeakerChanges(segments))

(***************************************************************************)
(* Properties of findBestMatch                                             *)
(***************************************************************************)
Scanned == scanPc = "done"

\* the step-by-step loop and the operator used by align() agree
ScanAgrees == Scanned => scanResult = findBestMatch(targetWords, entries, searchFrom)

\* C13: findBestMatch returns no match exactly when no scanned candidate has
\* raw confidence >= 0.25; if some scanned candidate has, a match is returned.
C13_NoMatchIffNoneClears ==
    Scanned =>
        (scanResult = NoMatch
            <=> \A k \in 1..Len(scanned) : Less(scanned[k].confidence, [n |-> 1, d |-> 4]))

(***************************************************************************)
(* Properties of calculateSimilarity                                       *)
(***************************************************************************)
\* words[from..] contains the first p words of `prefix` in order, where the
\* first q of them are already placed
RECURSIVE placedInOrder(_, _, _, _, _)
placedInOrder(words, from, prefix, q, p) ==
    IF q >= p THEN TRUE
    ELSE IF from > Len(words) THEN FALSE
    ELSE IF words[from] = prefix[q + 1] THEN placedInOrder(words, from + 1, prefix, q + 1, p)
    ELSE placedInOrder(words, from + 1, prefix, q, p)

\* the two-pointer count: the longest prefix of B found in order inside A
twoPointerCount(wordsA, wordsB) ==
    CHOOSE p \in 0..Len(wordsB) :
        /\ placedInOrder(wordsA, 1, wordsB, 0, p)
        /\ \A r \in (p + 1)..Len(wordsB) : ~placedInOrder(wordsA, 1, wordsB, 0, r)

\* C14: for non-empty word arrays A and B the similarity is
\* 0.5 * jaccard + 0.2 * lengthRatio + 0.3 * sequentialScore, the sequential
\* score being the two-pointer match count over max(|A|, |B|), and it lies
\* in [0, 1].
C14_SimilarityInUnitInterval ==
    scorePc = "done" =>
        LET setA == {tokens1[k] : k \in 1..Len(tokens1)}
            setB == {tokens2[k] : k \in 1..Len(tokens2)}
            inter == Cardinality(setA \cap setB)
            union == Cardinality(setA \cup setB)
            shorter == IF Len(tokens1) < Len(tokens2) THEN Len(tokens1) ELSE Len(tokens2)
            longer  == IF Len(tokens1) < Len(tokens2) THEN Len(tokens2) ELSE Len(tokens1)
            count == twoPointerCount(tokens1, tokens2)
        IN  /\ similarity.d > 0
            /\ 0 <= similarity.n /\ similarity.n <= similarity.d
            \* similarity = 5/10 * inter/union + 2/10 * shorter/longer + 3/10 * count/longer
            /\ similarity.n * (10 * union * longer)
                  = similarity.d * (5 * inter * longer + 2 * shorter * union + 3 * count * union)

\* identical arrays with a repeated word score exactly 1
C14_Witness ==
    /\ scorePc = "done"
    /\ tokens1 = tokens2
    /\ Len(tokens1) >= 3
    /\ tokens1[1] = tokens1[2]
    /\ similarity.n = similarity.d

(***************************************************************************)
(* Properties of process()                                                 *)
(***************************************************************************)
\* run r ends in this step, after an alignment that returned no segment
endsWithoutSegments(r) ==
    /\ r <= runs
    /\ appPc[r] = "align"
    /\ appPc'[r] = "ended"
    /\ pc = "returned"
    /\ Len(result) = 0

\* C15: when the alignment yields zero segments, process() ends with the
\* error section shown with a message, the progress bar hidden, the result
\* section hidden, and resultSRT still the value it had when the run began.
C15_ZeroSegmentsFail ==
    [][\A r \in 1..MaxRuns :
          endsWithoutSegments(r) =>
              /\ errorHidden' = FALSE
              /\ errorText' # ""
              /\ progressHidden' = TRUE
              /\ resultHidden' = TRUE
              /\ resultSRT' = outcome[r].srtBefore]_vars

\* the penalized score of a scanned candidate, from its raw confidence:
\* raw * (1 - 0.02 * (size - 15)) for size > 15, raw otherwise
claimedScore(c) ==
    LET size == c.endIndex - c.startIndex + 1
    IN  IF size > 15
        THEN [n |-> c.confidence.n * (100 - 2 * (size - 15)), d |-> c.confidence.d * 100]
        ELSE c.confidence

\* scanned[k] is the first candidate with the highest penalized score
firstBest(k) ==
    /\ \A l \in 1..Len(scanned) : ~Less(claimedScore(scanned[k]), claimedScore(scanned[l]))
    /\ \A l \in 1..(k - 1) : Less(claimedScore(scanned[l]), claimedScore(scanned[k]))

\* C17: a returned match is a span [a, b] with startIndex <= a <= b <= last
\* entry, a < startIndex + 30 and at most 30 entries; its times are entry
\* a's startMs and entry b's endMs; its confidence is the raw similarity of
\* the span and is >= 0.25; and it is the first scanned candidate with the
\* highest penalized score.
C17_MatchIsBestSpan ==
    (Scanned /\ scanResult # NoMatch) =>
        LET a == scanResult.startIndex
            b == scanResult.endIndex
            raw == calculateSimilarity(targetWords, Words(rangeText(entries, a, b)))
        IN  /\ searchFrom <= a /\ a <= b /\ b <= Len(entries) - 1
            /\ a < searchFrom + 30
            /\ b - a + 1 <= 30
            /\ scanResult.startMs = entries[a + 1].startMs
            /\ scanResult.endMs = entries[b + 1].endMs
            /\ scanResult.confidence.n * raw.d = raw.n * scanResult.confidence.d
            /\ ~Less(scanResult.confidence, [n |-> 1, d |-> 4])
            /\ \E k \in 1..Len(scanned) :
                  /\ scanned[k].startIndex = a /\ scanned[k].endIndex = b
                  /\ firstBest(k)

\* a match of more than 15 entries that does not begin at the start index,
\* found after more than 30 candidates
C17_Witness ==
    /\ Scanned /\ scanResult # NoMatch
    /\ scanResult.rangeSize > 15
    /\ scanResult.startIndex > searchFrom
    /\ Len(scanned) > 30

\* a candidate at which the scan stops: penalized score > 0.75 and size <= 20
stopsAt(c) ==
    /\ Less([n |-> 3, d |-> 4], claimedScore(c))
    /\ c.endIndex - c.startIndex + 1 <= 20

\* C18: once a candidate with penalized score > 0.75 and size <= 20 has been
\* scored no further candidate is scored, and the match returned is the best
\* candidate scored up to then.
C18_EarlyStop ==
    /\ \A k \in 1..Len(scanned) : stopsAt(scanned[k]) => k = Len(scanned)
    /\ (Scanned /\ scanned # <<>> /\ stopsAt(scanned[Len(scanned)])) =>
          /\ scanResult # NoMatch
          /\ \E k \in 1..Len(scanned) :
                /\ scanned[k].startIndex = scanResult.startIndex
                /\ scanned[k].endIndex = scanResult.endIndex
                /\ firstBest(k)

\* the scan stopped early and a longer span from the same start, never
\* scored, has a higher penalized score than the match returned
C18_Witness ==
    /\ Scanned /\ scanned # <<>> /\ stopsAt(scanned[Len(scanned)])
    /\ scanResult # NoMatch
    /\ \E b \in (scanResult.endIndex + 1)..(Len(entries) - 1) :
          /\ b - scanResult.startIndex + 1 <= 30
          /\ Less(claimedScore(scanResult),
                  claimedScore([startIndex |-> scanResult.startIndex, endIndex |-> b,
                                confidence |-> calculateSimilarity(targetWords,
                                    Words(rangeText(entries, scanResult.startIndex, b)))]))

(***************************************************************************)
(* Properties of pass 2 and of the anchors                                 *)
(***************************************************************************)
\* the returned segment of turn p (0-based)
segmentOf(p) == result[p - startIndex + 1]

\* turn p has no anchor: its segment was interpolated
interpolated(p) == \A a \in 1..Len(anchors) : anchors[a].pdfIndex # p

turnsReturned == startIndex..(Len(pdfSegments) - 1)

\* the nearest anchor before turn p and the nearest after it, NoMatch if none
anchorBefore(p) ==
    LET S == {a \in 1..Len(anchors) : anchors[a].pdfIndex < p}
    IN  IF S = {} THEN NoMatch
        ELSE anchors[CHOOSE a \in S : \A b \in S : anchors[b].pdfIndex <= anchors[a].pdfIndex]

anchorAfter(p) ==
    LET S == {a \in 1..Len(anchors) : anchors[a].pdfIndex > p}
    IN  IF S = {} THEN NoMatch
        ELSE anchors[CHOOSE a \in S : \A b \in S : anchors[b].pdfIndex >= anchors[a].pdfIndex]

\* C21: every interpolated segment align() returns lasts at most 3000 ms,
\* whether its turn lies between two anchors, before the first anchor, after
\* the last anchor, or there is no anchor at all.
C21_InterpolatedCapped ==
    Returned =>
        \A p \in turnsReturned :
            interpolated(p) => segmentOf(p).endMs - segmentOf(p).startMs <= 3000

\* a turn between two anchors whose even share of the gap is more than
\* 3000 ms and which lasts exactly 3000 ms
C21_Witness ==
    /\ Returned
    /\ \E p \in turnsReturned :
          /\ interpolated(p)
          /\ anchorBefore(p) # NoMatch /\ anchorAfter(p) # NoMatch
          /\ 4 * (anchorAfter(p).startMs - anchorBefore(p).endMs)
                > 5 * 3000 * (anchorAfter(p).pdfIndex - anchorBefore(p).pdfIndex)
          /\ segmentOf(p).endMs - segmentOf(p).startMs = 3000

\* C22: an interpolated turn p between consecutive anchors a and b with
\* a.endMs <= b.startMs starts inside [a.endMs, b.startMs], at the (rounded)
\* proportional point a.endMs + (b.startMs - a.endMs) * (p - ia) / (ib - ia),
\* and ends no later than the following turn starts.
C22_BetweenAnchors ==
    Returned =>
        \A p \in turnsReturned :
            (interpolated(p) /\ anchorBefore(p) # NoMatch /\ anchorAfter(p) # NoMatch) =>
                LET a == anchorBefore(p)
                    b == anchorAfter(p)
                    n == b.pdfIndex - a.pdfIndex
                IN  a.endMs <= b.startMs =>
                        /\ a.endMs <= segmentOf(p).startMs
                        /\ segmentOf(p).startMs <= b.startMs
                        /\ segmentOf(p).startMs
                              = (2 * (a.endMs * n + (b.startMs - a.endMs) * (p - a.pdfIndex)) + n)
                                   \div (2 * n)
                        /\ segmentOf(p).endMs <= segmentOf(p + 1).startMs

\* C27: every segment align() returns lies inside the timeline of the timed
\* transcript: 0 <= startMs and endMs <= the endMs of the last timed entry,
\* the turns after the last anchor included.
C27_InsideTimeline ==
    Returned =>
        \A p \in turnsReturned :
            /\ 0 <= segmentOf(p).startMs
            /\ segmentOf(p).endMs <= srtSubtitles[Len(srtSubtitles)].endMs

\* each timed entry ends before the next one starts, and none ends before it starts
NonOverlapping(subs) ==
    /\ \A k \in 1..Len(subs) : 0 <= subs[k].startMs /\ subs[k].startMs <= subs[k].endMs
    /\ \A k \in 1..(Len(subs) - 1) : subs[k].endMs <= subs[k + 1].startMs

\* C28: for sorted timed entries that do not overlap the startMs of the
\* returned segments never decreases along the output, whatever the mix of
\* anchored and interpolated turns.
C28_StartsNonDecreasing ==
    (Returned /\ NonOverlapping(srtSubtitles)) =>
        \A k \in 1..(Len(result) - 1) : result[k].startMs <= result[k + 1].startMs

\* an interpolated turn before the first anchor, one between two anchors and
\* one after the last anchor
C28_Witness ==
    /\ Returned /\ NonOverlapping(srtSubtitles)
    /\ Len(anchors) = 2
    /\ \E p \in turnsReturned : interpolated(p) /\ anchorBefore(p) = NoMatch
    /\ \E p \in turnsReturned :
          interpolated(p) /\ anchorBefore(p) # NoMatch /\ anchorAfter(p) # NoMatch
    /\ \E p \in turnsReturned : interpolated(p) /\ anchorAfter(p) = NoMatch

\* C29: when pass 1 is over the anchors have strictly increasing turn
\* indices, each has confidence >= 0.45, and the timed-entry spans of
\* successive anchors are disjoint and increasing: each span starts after
\* the previous one ends.  Pass 2 leaves the anchors as they are.
C29_AnchorsOrdered ==
    /\ [](pc \in {"pass2", "returned"} =>
             /\ Len(spans) = Len(anchors)
             /\ \A a \in 1..Len(anchors) :
                   /\ ~Less(anchors[a].confidence, [n |-> 45, d |-> 100])
                   /\ spans[a].startIndex <= spans[a].endIndex
             /\ \A a \in 1..(Len(anchors) - 1) :
                   /\ anchors[a].pdfIndex < anchors[a + 1].pdfIndex
                   /\ spans[a].endIndex < spans[a + 1].startIndex)
    /\ [][pc = "pass2" => anchors' = anchors]_vars

\* pass 2 is under way with two anchors, the second of which skipped timed
\* entries after the first one's span
C29_Witness ==
    /\ pc = "pass2" /\ i > startIndex
    /\ Len(anchors) = 2
    /\ spans[2].startIndex > spans[1].endIndex + 1
    /\ anchors[2].pdfIndex > anchors[1].pdfIndex + 1

(***************************************************************************)
(* More properties of filterSpeakerChanges                                 *)
(***************************************************************************)
\* the positions of toMerge at which a maximal run of one speaker begins
runStarts == {k \in 1..Len(toMerge) : k = 1 \/ toMerge[k].speaker # toMerge[k - 1].speaker}

\* the position at which the m-th run begins, and the one at which it ends
runStart(m) == CHOOSE k \in runStarts : Cardinality({j \in runStarts : j <= k}) = m

runEnd(m) == IF m = Cardinality(runStarts) THEN Len(toMerge) ELSE runStart(m + 1) - 1

\* the texts of toMerge[a..b] joined by single spaces
RECURSIVE joinedTexts(_, _)
joinedTexts(a, b) ==
    IF a = b THEN toMerge[a].text ELSE joinedTexts(a, b - 1) \o " " \o toMerge[b].text

\* C23: filterSpeakerChanges emits exactly one segment per maximal run of
\* consecutive segments with the same speaker label: its text is the run's
\* texts joined by single spaces, in order, it starts where the run's first
\* segment starts and ends where its last segment ends, and no two adjacent
\* output segments have the same speaker.
C23_OnePerRun ==
    mergePc \in {"remerge", "done"} =>
        /\ Len(merged) = Cardinality(runStarts)
        /\ \A m \in 1..Len(merged) :
              /\ merged[m].speaker = toMerge[runStart(m)].speaker
              /\ merged[m].text = joinedTexts(runStart(m), runEnd(m))
              /\ merged[m].startMs = toMerge[runStart(m)].startMs
              /\ merged[m].endMs = toMerge[runEnd(m)].endMs
        /\ \A m \in 1..(Len(merged) - 1) : merged[m].speaker # merged[m + 1].speaker

\* a run of one segment, then a run of two, then a run of one
C23_Witness ==
    /\ mergePc = "remerge"
    /\ Len(toMerge) = 4 /\ Len(merged) = 3
    /\ toMerge[2].speaker = toMerge[3].speaker
    /\ toMerge[2].text # toMerge[3].text
    /\ merged[2].endMs - merged[2].startMs = 2000

(***************************************************************************)
(* Properties of the reshaper on segment objects                           *)
(***************************************************************************)
\* the call that returned last
lastCall == CASE heapPc = "split" -> "filterSpeakerChanges"
              [] heapPc = "process" -> "splitLongSegments"
              [] heapPc = "done" -> "processSegments"
              [] OTHER -> "none"

\* the arrays of objects agree with the functions on values
ObjectsAgree ==
    /\ lastCall = "filterSpeakerChanges" =>
          deref(heap, outRefs) = filterSpeakerChanges(deref(heapBefore, argRefs))
    /\ lastCall = "splitLongSegments" =>
          deref(heap, outRefs) = splitLongSegments(deref(heapBefore, argRefs))
    /\ lastCall = "processSegments" =>
          deref(heap, outRefs) = processSegments(deref(heapBefore, argRefs))

\* C24: the reshaper never mutates its input: after filterSpeakerChanges,
\* splitLongSegments or processSegments has returned, every segment object of
\* the input array has the speaker, text, startMs and endMs it had before the
\* call, and the input array has the same length and order.
C24_InputUntouched ==
    /\ [](lastCall # "none" =>
             /\ Len(heap) >= Len(heapBefore)
             /\ \A k \in 1..Len(argRefs) :
                   /\ heap[argRefs[k]].speaker = heapBefore[argRefs[k]].speaker
                   /\ heap[argRefs[k]].text = heapBefore[argRefs[k]].text
                   /\ heap[argRefs[k]].startMs = heapBefore[argRefs[k]].startMs
                   /\ heap[argRefs[k]].endMs = heapBefore[argRefs[k]].endMs)
    /\ [][argRefs' = argRefs]_vars

\* filterSpeakerChanges has merged two input segments into a new object whose
\* text is longer than that of the first of them
C24_Witness ==
    /\ lastCall = "filterSpeakerChanges"
    /\ Len(argRefs) >= 2
    /\ Len(outRefs) < Len(argRefs)
    /\ \E k \in 1..Len(outRefs) :
          /\ outRefs[k] > Len(heapBefore)
          /\ \E j \in 1..Len(argRefs) :
                /\ heap[outRefs[k]].startMs = heap[argRefs[j]].startMs
                /\ Len(heap[outRefs[k]].text) > Len(heap[argRefs[j]].text)

(***************************************************************************)
(* Properties of splitTextIntoChunks, seen through splitLongSegments       *)
(***************************************************************************)
\* the words of a text: its maximal runs of characters other than whitespace
wordsOf(text) == SelectSeq(SplitWhitespace(Chars(text)), LAMBDA w : w # <<>>)

\* the positions in `processed` of the chunks of input segment k
chunksOf(k) == (emittedBefore(k) + 1)..(emittedBefore(k) + emitted(segments[k]))

wasSplit(k) == durationOf(segments[k]) > 120000

\* C25: no chunk splitTextIntoChunks returns is longer than 200 characters
\* when no word of the text is: a text, or a sentence of it, without a
\* sentence boundary within 200 characters is split at word boundaries.
C25_ChunksWithinBudget ==
    Reshaped =>
        \A k \in 1..Len(segments) :
            (wasSplit(k) /\ \A w \in SetOf(wordsOf(segments[k].text)) : Len(w) <= 200) =>
                \A c \in chunksOf(k) : Len(processed[c].text) <= 200

\* the words of the chunks at positions a..b of `processed`, in order
RECURSIVE chunkWords(_, _)
chunkWords(a, b) ==
    IF a > b THEN <<>> ELSE chunkWords(a, b - 1) \o wordsOf(processed[b].text)

\* C26: splitting never loses or reorders text: the words of the chunks, in
\* chunk order, are the words of the original text in the original order, a
\* trailing run of words without '.', '!' or '?' included.
C26_WordsPreserved ==
    Reshaped =>
        \A k \in 1..Len(segments) :
            wasSplit(k) =>
                chunkWords(emittedBefore(k) + 1, emittedBefore(k) + emitted(segments[k]))
                    = wordsOf(segments[k].text)

(***************************************************************************)
(* More properties of process()                                            *)
(***************************************************************************)
\* run r has called showProgress and has not yet called hideProgress
inFlight(r) == r <= runs /\ appPc[r] \in {"extract", "parse", "align"}

\* C30: while a process() run is in flight the Process button is disabled,
\* whatever file selections happen between the run's awaits, so at most one
\* run is in flight at any time.
C30_OneRunAtATime ==
    /\ (\E r \in 1..runs : inFlight(r)) => processBtnDisabled
    /\ Cardinality({r \in 1..runs : inFlight(r)}) <= 1

=============================================================================
